---- MODULE Spec2Model ----
(***************************************************************************)
(* Session-scoped temporary-artifact lifecycle of file2md-demo:            *)
(*   - GET  /api/serve-image  (src/src/app/api/serve-image/route.ts)       *)
(*   - POST /api/convert      (src/src/app/api/convert/route.ts and the    *)
(*                             inline-capable revision src/unnamed/part_002)*)
(*   - POST /api/cleanup      (src/unnamed/part_000)                       *)
(*   - middleware             (src/src/middleware.ts)                      *)
(* Strings are sequences of one-character strings, paths are sequences of  *)
(* segments, the filesystem is a function from the existing paths to their *)
(* kind, modification time and content.                                    *)
(***************************************************************************)
EXTENDS Integers, Sequences, FiniteSets, TLC

VARIABLES
    now,      \* Date.now(), milliseconds, origin shifted
    env,      \* process.env.VERCEL and the deployed revision of the convert route
    fs,       \* the filesystem: path -> [kind, mtime, data]
    srv,      \* the GET /api/serve-image request in flight
    bg,       \* fire-and-forget deletions spawned by expired-session requests
    conv,     \* the POST /api/convert requests
    cln,      \* the cleanupTempFiles calls of each convert request
    swp,      \* the POST /api/cleanup sweep in flight
    mw        \* the middleware's lastCleanup and the cleanup requests it has sent

vars == <<now, env, fs, srv, bg, conv, cln, swp, mw>>

(***************************************************************************)
(* Bounds of the model.                                                    *)
(***************************************************************************)
\* longest requested image path (characters)
MaxPathLen == 4
\* the clock is observed around the multiples 0..MaxHours of the retention window
MaxHours == 1
\* most images one conversion returns
MaxImages == 2

(***************************************************************************)
(* Program constants.                                                      *)
(***************************************************************************)
\* serve-image/route.ts:27  const maxAge = 60 * 60 * 1000
maxAge == 3600000
\* cleanup route (part_000:7)  const CLEANUP_AGE_MS = 60 * 60 * 1000
CLEANUP_AGE_MS == 3600000
\* convert/route.ts:43  const MAX_SIZE = 50 * 1024 * 1024
MAX_SIZE == 52428800
\* middleware.ts:6  const CLEANUP_INTERVAL = 30 * 60 * 1000
CLEANUP_INTERVAL == 1800000
\* first instant of the model's clock (the origin is shifted: TLC integers are 32 bit)
StartTime == 7

(***************************************************************************)
(* Characters and strings.                                                 *)
(***************************************************************************)
Digits == {"0", "1", "2", "3", "4", "5", "6", "7", "8", "9"}

LowerCase ==
    {"a", "b", "c", "d", "e", "f", "g", "h", "i", "j", "k", "l", "m",
     "n", "o", "p", "q", "r", "s", "t", "u", "v", "w", "x", "y", "z"}

UpperCase ==
    {"A", "B", "C", "D", "E", "F", "G", "H", "I", "J", "K", "L", "M",
     "N", "O", "P", "Q", "R", "S", "T", "U", "V", "W", "X", "Y", "Z"}

\* [a-zA-Z0-9]
Alnum == Digits \cup LowerCase \cup UpperCase

DigitChar(d) ==
    CASE d = 0 -> "0" [] d = 1 -> "1" [] d = 2 -> "2" [] d = 3 -> "3" [] d = 4 -> "4"
      [] d = 5 -> "5" [] d = 6 -> "6" [] d = 7 -> "7" [] d = 8 -> "8" [] d = 9 -> "9"

DigitVal(c) == CHOOSE d \in 0..9 : DigitChar(d) = c

\* `${n}` for a non-negative integer
RECURSIVE NumToStr(_)
NumToStr(n) == IF n < 10 THEN <<DigitChar(n)>>
               ELSE NumToStr(n \div 10) \o <<DigitChar(n % 10)>>

\* parseInt(s) for a string of decimal digits
RECURSIVE ParseInt(_)
ParseInt(s) == IF Len(s) = 0 THEN 0
               ELSE 10 * ParseInt(SubSeq(s, 1, Len(s) - 1)) + DigitVal(s[Len(s)])

\* s.indexOf(c), 1-based; 0 when absent
IndexOf(s, c) == IF \E i \in 1..Len(s) : s[i] = c
                 THEN CHOOSE i \in 1..Len(s) : s[i] = c /\ \A j \in 1..(i - 1) : s[j] # c
                 ELSE 0

\* s.lastIndexOf(c), 1-based; 0 when absent
LastIndexOf(s, c) == IF \E i \in 1..Len(s) : s[i] = c
                     THEN CHOOSE i \in 1..Len(s) : s[i] = c /\ \A j \in (i + 1)..Len(s) : s[j] # c
                     ELSE 0

\* s.includes(sub)
Includes(s, sub) ==
    \E i \in 1..(Len(s) - Len(sub) + 1) : SubSeq(s, i, i + Len(sub) - 1) = sub

\* s.startsWith(pre), for strings and for paths
StartsWith(s, pre) == Len(pre) <= Len(s) /\ SubSeq(s, 1, Len(pre)) = pre

\* session.split('-')[0]
SplitFirst(s) == IF IndexOf(s, "-") = 0 THEN s ELSE SubSeq(s, 1, IndexOf(s, "-") - 1)

(***************************************************************************)
(* path (posix).                                                           *)
(***************************************************************************)
\* path.basename(p): trailing slashes are skipped, then the part after the last slash
Basename(p) ==
    LET ends == {i \in 1..Len(p) : p[i] # "/"}
    IN  IF ends = {} THEN <<>>
        ELSE LET e == CHOOSE i \in ends : \A j \in ends : j <= i
                 slashes == {i \in 1..e : p[i] = "/"}
                 s == IF slashes = {} THEN 1
                      ELSE 1 + (CHOOSE i \in slashes : \A j \in slashes : j <= i)
             IN  SubSeq(p, s, e)

\* the segments of a relative path string, split at "/"
RECURSIVE SplitPath(_)
SplitPath(p) ==
    IF IndexOf(p, "/") = 0 THEN <<p>>
    ELSE <<SubSeq(p, 1, IndexOf(p, "/") - 1)>>
         \o SplitPath(SubSeq(p, IndexOf(p, "/") + 1, Len(p)))

\* path.normalize on segments: "" and "." are dropped, ".." removes the segment before it
RECURSIVE Normalize(_, _)
Normalize(done, rest) ==
    IF Len(rest) = 0 THEN done
    ELSE LET h == Head(rest)
         IN  IF h = <<>> \/ h = <<".">> THEN Normalize(done, Tail(rest))
             ELSE IF h = <<".", ".">>
                  THEN Normalize(IF Len(done) = 0 THEN done
                                 ELSE SubSeq(done, 1, Len(done) - 1), Tail(rest))
                  ELSE Normalize(Append(done, h), Tail(rest))

\* path.join(dir, ...names): dir an absolute normalized path, names relative path strings
RECURSIVE JoinSegs(_)
JoinSegs(names) == IF Len(names) = 0 THEN <<>>
                   ELSE SplitPath(Head(names)) \o JoinSegs(Tail(names))

PathJoin(dir, names) == Normalize(dir, JoinSegs(names))

\* a proper descendant of dir
Under(p, dir) == Len(p) > Len(dir) /\ StartsWith(p, dir)

(***************************************************************************)
(* Directories of the deployment.                                          *)
(***************************************************************************)
\* process.cwd()
Cwd == << <<"a", "p", "p">> >>

\* '/tmp'
SlashTmp == << <<"t", "m", "p">> >>

\* path.join(process.cwd(), 'temp')
CwdTemp == PathJoin(Cwd, << <<"t", "e", "m", "p">> >>)

\* path.join(process.cwd(), 'public', 'downloads')
CwdDownloads == PathJoin(Cwd, << <<"p", "u", "b", "l", "i", "c">>,
                                 <<"d", "o", "w", "n", "l", "o", "a", "d", "s">> >>)

ImagesSuffix == <<"-", "i", "m", "a", "g", "e", "s">>

ImagesName == <<"i", "m", "a", "g", "e", "s">>

\* serve-image/route.ts:31,56  process.env.VERCEL ? '/tmp' : path.join(process.cwd(), 'temp')
ServeTempDir(e) == IF e.vercel THEN SlashTmp ELSE CwdTemp

\* serve-image/route.ts:32,57  path.join(tempDir, `${session}-images`)
SandboxRoot(e, session) == PathJoin(ServeTempDir(e), <<session \o ImagesSuffix>>)

(***************************************************************************)
(* Filesystem.                                                             *)
(***************************************************************************)
NoPath == <<>>

Exists(f, p) == p \in DOMAIN f

\* every proper ancestor directory of p
Ancestors(p) == {SubSeq(p, 1, k) : k \in 1..(Len(p) - 1)}

\* the entries of f at or below p
Tree(f, p) == {q \in DOMAIN f : q = p \/ Under(q, p)}

Restrict(f, keep) == [q \in keep |-> f[q]]

\* rm(p, {recursive: true, force: true})
RmTree(f, p) == Restrict(f, DOMAIN f \ Tree(f, p))

\* a directory entry changes: its modification time is the time of the change
Touch(f, dirs, t) ==
    [q \in DOMAIN f |-> IF q \in dirs /\ f[q].kind = "dir" THEN [f[q] EXCEPT !.mtime = t]
                        ELSE f[q]]

\* unlink(p) of an existing file
Unlink(f, p, t) ==
    Touch(Restrict(f, DOMAIN f \ {p}), {SubSeq(p, 1, Len(p) - 1)}, t)

\* mkdir(p, {recursive: true})
Mkdirp(f, p, t) ==
    LET new == {q \in Ancestors(p) \cup {p} : q \notin DOMAIN f}
        parents == {SubSeq(q, 1, Len(q) - 1) : q \in new}
    IN  [q \in DOMAIN f \cup new |->
            IF q \in new THEN [kind |-> "dir", mtime |-> t, data |-> "dir"]
            ELSE IF q \in parents THEN [f[q] EXCEPT !.mtime = t]
            ELSE f[q]]

\* writeFile(p, data): the parent directory exists
WriteFile(f, p, d, t) ==
    LET parent == SubSeq(p, 1, Len(p) - 1)
    IN  [q \in DOMAIN f \cup {p} |->
            IF q = p THEN [kind |-> "file", mtime |-> t, data |-> d]
            ELSE IF q = parent /\ p \notin DOMAIN f THEN [f[q] EXCEPT !.mtime = t]
            ELSE f[q]]

\* the observed instants of the clock: the start, and each full hour after it with the
\* millisecond that follows
Instants ==
    {StartTime} \cup {StartTime + k * maxAge + e : k \in 1..MaxHours, e \in {0, 1}}

BaseDirs == {Cwd, CwdDownloads, SubSeq(CwdDownloads, 1, 2), SlashTmp}

\* a filesystem holding the given image files and the directories above them
FsWith(files, t) ==
    LET dirs == BaseDirs \cup UNION {Ancestors(p) : p \in files}
    IN  [q \in dirs \cup files |->
            IF q \in files THEN [kind |-> "file", mtime |-> t, data |-> "image"]
            ELSE [kind |-> "dir", mtime |-> t, data |-> "dir"]]

(***************************************************************************)
(* GET /api/serve-image  (src/src/app/api/serve-image/route.ts).           *)
(***************************************************************************)
DotDot == <<".", ".">>

\* route.ts:20  /^\d+-[a-zA-Z0-9]+$/.test(session)
SessionFormatOk(s) ==
    LET k == IndexOf(s, "-")
    IN  /\ k > 1
        /\ k < Len(s)
        /\ \A i \in 1..(k - 1) : s[i] \in Digits
        /\ \A i \in (k + 1)..Len(s) : s[i] \in Alnum

\* route.ts:25  parseInt(session.split('-')[0])
SessionTimestamp(s) == ParseInt(SplitFirst(s))

\* the retention window taken in seconds
SessionExpired_Seconds(s, t) == t - SessionTimestamp(s) > maxAge \div 1000

\* a timestamp later than the request is taken as expired too
SessionExpired_FutureToo(s, t) == t - SessionTimestamp(s) > maxAge \/ SessionTimestamp(s) > t

\* route.ts:29  now - timestamp > maxAge
SessionExpired(s, t) == t - SessionTimestamp(s) > maxAge

\* route.ts:50  path.basename(imagePath)
SafePath(imagePath) == Basename(imagePath)

\* the base name is not compared with the requested path
PathRejected_NoCompare(imagePath) == Includes(SafePath(imagePath), DotDot)

\* the base name is not searched for ".."
PathRejected_NoDotDot(imagePath) == SafePath(imagePath) # imagePath

\* route.ts:51  safePath !== imagePath || safePath.includes('..')
PathRejected(imagePath) ==
    SafePath(imagePath) # imagePath \/ Includes(SafePath(imagePath), DotDot)

\* route.ts:57  path.join(tempDir, `${session}-images`, safePath)
PrimaryPath(e, session, safePath) ==
    PathJoin(ServeTempDir(e), <<session \o ImagesSuffix, safePath>>)

\* route.ts:71-75  the alternative layouts, in the order they are tried
AlternativePaths(e, session, safePath) ==
    << PathJoin(ServeTempDir(e), <<session \o ImagesSuffix, ImagesName, safePath>>),
       PathJoin(ServeTempDir(e), <<session, ImagesName, safePath>>),
       PathJoin(ServeTempDir(e), <<session, safePath>>) >>

\* route.ts:79-86  the alternatives probed up to and including the first that exists
ProbedAlternatives(f, alts) ==
    LET hits == {i \in 1..Len(alts) : Exists(f, alts[i])}
    IN  IF hits = {} THEN alts
        ELSE SubSeq(alts, 1, CHOOSE i \in hits : \A j \in hits : i <= j)

\* route.ts:79-86  foundPath; NoPath when none exists
FoundPath(f, alts) ==
    LET hits == {i \in 1..Len(alts) : Exists(f, alts[i])}
    IN  IF hits = {} THEN NoPath
        ELSE alts[CHOOSE i \in hits : \A j \in hits : i <= j]

\* what an error response carries: a JSON object with an error string, or a text
NoBody == [json |-> FALSE, error |-> "", text |-> ""]

\* new NextResponse(msg, {status})
TextBody(msg) == [json |-> FALSE, error |-> "", text |-> msg]

\* NextResponse.json({..., error: msg}, {status}) and new Response(JSON.stringify({error: msg}))
JsonError(msg) == [json |-> TRUE, error |-> msg, text |-> ""]

SrvIdle ==
    [pc |-> "idle", session |-> <<>>, path |-> <<>>, at |-> 0, status |-> 0,
     probed |-> <<>>, readPath |-> NoPath, body |-> "none", err |-> NoBody]

\* route.ts:55-110  the lookup of a validated request: 404, or the readFile it issues
ServeLookup(e, f, base) ==
    LET primary == PrimaryPath(e, base.session, SafePath(base.path))
        alts == AlternativePaths(e, base.session, SafePath(base.path))
    IN  IF Exists(f, primary)
        THEN [base EXCEPT !.pc = "reading", !.probed = <<primary, primary>>,
                          !.readPath = primary]
        ELSE IF FoundPath(f, alts) = NoPath
        THEN [base EXCEPT !.pc = "done", !.status = 404, !.err = TextBody("Image not found"),
                          !.probed = <<primary, primary>> \o alts]
        ELSE [base EXCEPT !.pc = "reading",
                          !.probed = <<primary, primary>> \o ProbedAlternatives(f, alts),
                          !.readPath = FoundPath(f, alts)]

\* the path is validated before the session's age is looked at
ServeSync_PathFirst(e, f, t, session, imagePath) ==
    LET base == [SrvIdle EXCEPT !.session = session, !.path = imagePath, !.at = t]
    IN  IF imagePath = <<>> \/ session = <<>>
        THEN [req |-> [base EXCEPT !.pc = "done", !.status = 400,
                                  !.err = TextBody("Missing parameters")], spawn |-> NoPath]
        ELSE IF ~SessionFormatOk(session)
        THEN [req |-> [base EXCEPT !.pc = "done", !.status = 403,
                                  !.err = TextBody("Invalid session")], spawn |-> NoPath]
        ELSE IF PathRejected(imagePath)
        THEN [req |-> [base EXCEPT !.pc = "done", !.status = 403,
                                  !.err = TextBody("Invalid path")], spawn |-> NoPath]
        ELSE IF SessionExpired(session, t)
        THEN [req |-> [base EXCEPT !.pc = "done", !.status = 410,
                                  !.err = TextBody("Session expired")],
              spawn |-> SandboxRoot(e, session)]
        ELSE [req |-> ServeLookup(e, f, base), spawn |-> NoPath]

\* route.ts:11-110  the handler up to its first suspension: the response, or the
\* readFile it issues.  spawn: the directory whose deletion it fires and forgets.
ServeSync(e, f, t, session, imagePath) ==
    LET base == [SrvIdle EXCEPT !.session = session, !.path = imagePath, !.at = t]
    IN  IF imagePath = <<>> \/ session = <<>>
        THEN [req |-> [base EXCEPT !.pc = "done", !.status = 400,
                                  !.err = TextBody("Missing parameters")], spawn |-> NoPath]
        ELSE IF ~SessionFormatOk(session)
        THEN [req |-> [base EXCEPT !.pc = "done", !.status = 403,
                                  !.err = TextBody("Invalid session")], spawn |-> NoPath]
        ELSE IF SessionExpired(session, t)
        THEN [req |-> [base EXCEPT !.pc = "done", !.status = 410,
                                  !.err = TextBody("Session expired")],
              spawn |-> SandboxRoot(e, session)]
        ELSE IF PathRejected(imagePath)
        THEN [req |-> [base EXCEPT !.pc = "done", !.status = 403,
                                  !.err = TextBody("Invalid path")], spawn |-> NoPath]
        ELSE [req |-> ServeLookup(e, f, base), spawn |-> NoPath]

\* route.ts:9-107  a request arrives and runs to its response or to its readFile
ServeRequest(session, imagePath) ==
    /\ srv.pc = "idle"
    /\ LET r == ServeSync(env, fs, now, session, imagePath)
       IN  /\ srv' = r.req
           /\ bg' = IF r.spawn = NoPath THEN bg
                    ELSE bg \cup {[dir |-> r.spawn, pc |-> "check"]}
    /\ UNCHANGED <<now, env, fs, conv, cln, swp, mw>>

\* route.ts:110-130  readFile completes: the bytes are served, or the read throws
\* (the file is gone, or the path is a directory) and the catch answers 500
ServeRead ==
    /\ srv.pc = "reading"
    /\ srv' = IF Exists(fs, srv.readPath) /\ fs[srv.readPath].kind = "file"
              THEN [srv EXCEPT !.pc = "done", !.status = 200, !.body = fs[srv.readPath].data]
              ELSE [srv EXCEPT !.pc = "done", !.status = 500,
                                !.err = TextBody("Internal server error")]
    /\ UNCHANGED <<now, env, fs, bg, conv, cln, swp, mw>>

\* the response has been returned to the client; the next request may arrive
ServeReturn ==
    /\ srv.pc = "done"
    /\ srv' = SrvIdle
    /\ UNCHANGED <<now, env, fs, bg, conv, cln, swp, mw>>

\* route.ts:35-37  the detached task starts: existsSync(sessionImageDir)
ExpiredCheck(task) ==
    /\ task \in bg
    /\ task.pc = "check"
    /\ bg' = IF Exists(fs, task.dir)
             THEN (bg \ {task}) \cup {[task EXCEPT !.pc = "rm"]}
             ELSE bg \ {task}
    /\ UNCHANGED <<now, env, fs, srv, conv, cln, swp, mw>>

\* the directory is left in place and the task ends
ExpiredRm_Skip(task) ==
    /\ task \in bg
    /\ task.pc = "rm"
    /\ bg' = bg \ {task}
    /\ UNCHANGED <<now, env, fs, srv, conv, cln, swp, mw>>

\* route.ts:38  fs.rm(sessionImageDir, {recursive: true, force: true})
ExpiredRm(task) ==
    /\ task \in bg
    /\ task.pc = "rm"
    /\ fs' = IF Exists(fs, task.dir)
             THEN Touch(RmTree(fs, task.dir), {SubSeq(task.dir, 1, Len(task.dir) - 1)}, now)
             ELSE fs
    /\ bg' = bg \ {task}
    /\ UNCHANGED <<now, env, srv, conv, cln, swp, mw>>

\* route.ts:38-42  fs.rm rejects (EACCES, EBUSY): the error is logged and the task ends
\* with the directory in place
ExpiredRmFail(task) ==
    /\ task \in bg
    /\ task.pc = "rm"
    /\ bg' = (bg \ {task}) \cup {[task EXCEPT !.pc = "failed"]}
    /\ UNCHANGED <<now, env, fs, srv, conv, cln, swp, mw>>

\* route.ts:35-44  the next step of a detached deletion
ExpiredTask(task) == ExpiredCheck(task) \/ ExpiredRm(task) \/ ExpiredRmFail(task)

(***************************************************************************)
(* POST /api/convert  (src/src/app/api/convert/route.ts; the revision with *)
(* the inline mode is src/unnamed/part_002).                               *)
(***************************************************************************)
\* the convert requests of the model
Reqs == {1, 2}

\* the random suffixes Math.random().toString(36).substring(2) is drawn from
Suffixes == {<<"a">>, <<"b">>}

\* the names the converter gives the images it saves
ImageNames == <<<<"a">>, <<"b">>, <<"c">>, <<"d">>>>

UpperSeq ==
    <<"A", "B", "C", "D", "E", "F", "G", "H", "I", "J", "K", "L", "M",
      "N", "O", "P", "Q", "R", "S", "T", "U", "V", "W", "X", "Y", "Z">>

LowerSeq ==
    <<"a", "b", "c", "d", "e", "f", "g", "h", "i", "j", "k", "l", "m",
      "n", "o", "p", "q", "r", "s", "t", "u", "v", "w", "x", "y", "z">>

\* s.toLowerCase()
ToLowerCase(s) ==
    [i \in 1..Len(s) |->
        IF s[i] \in UpperCase THEN LowerSeq[CHOOSE k \in 1..26 : UpperSeq[k] = s[i]]
        ELSE s[i]]

\* a form field: absent, or its text
NoField == [present |-> FALSE, value |-> <<>>]
Field(text) == [present |-> TRUE, value |-> text]

\* the form without any of the optional fields
NoForm == [preserveLayout |-> NoField, extractImages |-> NoField, extractCharts |-> NoField]

\* route.ts:18  (formData.get(...))?.toLowerCase?.() === 'true'
IsTrueField(f) == f.present /\ ToLowerCase(f.value) = <<"t", "r", "u", "e">>

\* route.ts:19-20  (formData.get(...))?.toLowerCase?.() !== 'false'
IsNotFalseField(f) == ~(f.present /\ ToLowerCase(f.value) = <<"f", "a", "l", "s", "e">>)

\* route.ts:17-20,101-107  the options convert() is called with
ConvertOptions(form) ==
    [preserveLayout |-> IsTrueField(form.preserveLayout) \/ TRUE,
     extractImages |-> IsNotFalseField(form.extractImages),
     extractCharts |-> IsNotFalseField(form.extractCharts)]

\* route.ts:30-39
AllowedTypes ==
    {"application/pdf",
     "application/vnd.openxmlformats-officedocument.wordprocessingml.document",
     "application/vnd.openxmlformats-officedocument.spreadsheetml.sheet",
     "application/vnd.openxmlformats-officedocument.presentationml.presentation",
     "application/x-hwp", "application/x-hwpx", "application/x-cfb", "application/zip"}

\* route.ts:40
AllowedExts ==
    { <<".", "p", "d", "f">>, <<".", "d", "o", "c", "x">>, <<".", "p", "p", "t", "x">>,
      <<".", "x", "l", "s", "x">>, <<".", "h", "w", "p">>, <<".", "h", "w", "p", "x">> }

\* route.ts:51-52  nameLower.slice(nameLower.lastIndexOf('.')): slice(-1) is the last character
NameExt(name) ==
    LET lower == ToLowerCase(name)
        k == LastIndexOf(lower, ".")
    IN  IF k = 0 THEN SubSeq(lower, Len(lower), Len(lower))
        ELSE SubSeq(lower, k, Len(lower))

\* the extension is compared as it was typed
IsAllowed_CaseSensitive(file) ==
    LET k == LastIndexOf(file.name, ".")
        ext == IF k = 0 THEN SubSeq(file.name, Len(file.name), Len(file.name))
               ELSE SubSeq(file.name, k, Len(file.name))
    IN  (file.type # "" /\ file.type \in AllowedTypes) \/ ext \in AllowedExts

\* route.ts:49-56
IsAllowed(file) ==
    (file.type # "" /\ file.type \in AllowedTypes) \/ NameExt(file.name) \in AllowedExts

\* the type is validated before the size
ValidationStatus_TypeFirst(file) ==
    IF ~file.present THEN 400
    ELSE IF ~IsAllowed(file) THEN 400
    ELSE IF file.size > MAX_SIZE THEN 413
    ELSE 0

\* route.ts:22-62  the status validation answers, 0 when the upload is accepted
ValidationStatus(file) ==
    IF ~file.present THEN 400
    ELSE IF file.size > MAX_SIZE THEN 413
    ELSE IF ~IsAllowed(file) THEN 400
    ELSE 0

\* route.ts:22-62  the body of the answer of the validation
ValidationError(file) ==
    IF ~file.present THEN JsonError("No file provided")
    ELSE IF file.size > MAX_SIZE THEN JsonError("File too large. Max 50MB.")
    ELSE IF ~IsAllowed(file) THEN JsonError("Unsupported file type")
    ELSE NoBody

\* route.ts:84  file.name.replace(/[^a-zA-Z0-9.-]/g, '_')
SanitizeFileName(name) ==
    [i \in 1..Len(name) |-> IF name[i] \in Alnum \cup {".", "-"} THEN name[i] ELSE "_"]

\* route.ts:85  sanitizedFileName.replace(/\.[^/.]+$/, '')
OriginalName(sanitized) ==
    LET k == LastIndexOf(sanitized, ".")
    IN  IF k > 0 /\ k < Len(sanitized) /\ \A i \in (k + 1)..Len(sanitized) : sanitized[i] # "/"
        THEN SubSeq(sanitized, 1, k - 1)
        ELSE sanitized

\* convert/route.ts:82  `${Date.now()}-${Math.random().toString(36).substring(2)}`
MkId(t, suffix) == NumToStr(t) \o <<"-">> \o suffix

\* route.ts:65 (part_002:70)  tempDir
ConvTempDir(e) == IF e.inline /\ e.vercel THEN SlashTmp ELSE CwdTemp

\* route.ts:66 (part_002:71)  outputDir
ConvOutputDir(e) == IF e.inline /\ e.vercel THEN SlashTmp ELSE CwdDownloads

\* inline mode only where the public directory is absent
ShouldUseBase64_PublicAbsentOnly(e, f) ==
    e.inline /\ ~Exists(f, SubSeq(CwdDownloads, 1, 2))

\* part_002:93-96  shouldUseBase64; the revision route.ts has no inline mode
ShouldUseBase64(e, f) ==
    e.inline /\ (e.vercel \/ ~Exists(f, SubSeq(CwdDownloads, 1, 2)) \/ TRUE)

\* route.ts:88  path.join(tempDir, `${fileId}-${sanitizedFileName}`)
TempFilePath(e, c) == PathJoin(ConvTempDir(e), <<c.fileId \o <<"-">> \o c.name>>)

\* route.ts:97  path.join(tempDir, `${fileId}-images`)
ImageDir(e, c) == PathJoin(ConvTempDir(e), <<c.fileId \o ImagesSuffix>>)

\* route.ts:129  path.join(outputDir, `${fileId}-images`, 'images')
PublicImagesDir(e, c) == PathJoin(ConvOutputDir(e), <<c.fileId \o ImagesSuffix, ImagesName>>)

\* route.ts:123-124  path.join(outputDir, `${originalName}__${fileId}.zip`)
ZipPath(e, c) ==
    PathJoin(ConvOutputDir(e),
             <<OriginalName(c.name) \o <<"_", "_">> \o c.fileId \o <<".", "z", "i", "p">>>>)

\* route.ts:186-187  path.join(outputDir, `${originalName}__${fileId}.md`)
MdPath(e, c) ==
    PathJoin(ConvOutputDir(e),
             <<OriginalName(c.name) \o <<"_", "_">> \o c.fileId \o <<".", "m", "d">>>>)

\* where the converter saves image i of a conversion: imageDir/<name>, or one of the
\* layouts serve-image/route.ts:71-75 expects of file2md, or (5) a directory per image
\* under imageDir, holding a file of the same name in each
SavedPath(e, c, layout, i) ==
    CASE layout = 1 -> PathJoin(ImageDir(e, c), <<ImageNames[i]>>)
      [] layout = 2 -> PathJoin(ImageDir(e, c), <<ImagesName, ImageNames[i]>>)
      [] layout = 3 -> PathJoin(ConvTempDir(e), <<c.fileId, ImagesName, ImageNames[i]>>)
      [] layout = 4 -> PathJoin(ConvTempDir(e), <<c.fileId, ImageNames[i]>>)
      [] layout = 5 -> PathJoin(ImageDir(e, c), <<ImageNames[i], ImageNames[1]>>)

\* the fields of the answer to a successful conversion that depend on the images
NoResp == [hasImages |-> FALSE, imageCount |-> 0, statsImageCount |-> 0, payload |-> "none"]

\* the images are counted as they reach the mirror
SuccessBody_CountMirrored(c, payload) ==
    [hasImages |-> Len(c.images) > 0,
     imageCount |-> Len(c.images) - Cardinality(c.skipped),
     statsImageCount |-> Len(c.images) - Cardinality(c.skipped),
     payload |-> payload]

\* route.ts:116,200-231  hasImages, imageCount and stats.imageCount of the answer; payload:
\* what downloadUrl points to, the archive (lines 121-158) or the markdown (lines 184-189)
SuccessBody(c, payload) ==
    [hasImages |-> Len(c.images) > 0,
     imageCount |-> Len(c.images),
     statsImageCount |-> Len(c.images),
     payload |-> payload]

NoFile == [present |-> FALSE, size |-> 0, type |-> "", name |-> <<>>]

ConvIdle ==
    [pc |-> "idle", status |-> 0, file |-> NoFile, fileId |-> <<>>, name |-> <<>>,
     images |-> <<>>, i |-> 0, zip |-> "none", entries |-> {}, url |-> "none",
     base64 |-> FALSE, converted |-> FALSE, form |-> NoForm, skipped |-> {}, inflight |-> {}, err |-> NoBody, resp |-> NoResp]

\* the two cleanupTempFiles calls a request may have in flight: the one it awaits (fg)
\* and the one the archive's close/error handler fires and forgets (bg)
ClnIdle == [fg |-> "none", bg |-> "none"]

\* route.ts:339-350  cleanupTempFiles up to its first suspension: existsSync(tempFilePath)
\* and the unlink it issues, else existsSync(imageDir) and the rm it issues
CleanupStart(f, tempFilePath, imageDir) ==
    IF Exists(f, tempFilePath) THEN "unlink"
    ELSE IF Exists(f, imageDir) THEN "rm"
    ELSE "done"

Parent(p) == SubSeq(p, 1, Len(p) - 1)

\* fs/promises unlink(p): removes a file; throws on a directory or an absent path
TryUnlink(f, p, t) ==
    IF Exists(f, p) /\ f[p].kind = "file" THEN [fs |-> Unlink(f, p, t), err |-> FALSE]
    ELSE [fs |-> f, err |-> TRUE]

\* fs/promises rm(p, {recursive: true, force: true}): removes the tree, nothing when absent
RmForce(f, p, t) ==
    IF Exists(f, p) THEN Touch(RmTree(f, p), {Parent(p)}, t) ELSE f

\* each call removes one artifact: the image directory is looked at only when the
\* staged input is absent
CleanupBody_OnePerCall(f, tempFilePath, imageDir, t) ==
    IF Exists(f, tempFilePath) THEN TryUnlink(f, tempFilePath, t)
    ELSE IF Exists(f, imageDir) THEN [fs |-> RmForce(f, imageDir, t), err |-> FALSE]
    ELSE [fs |-> f, err |-> FALSE]

\* route.ts:340-350  the try block of cleanupTempFiles, run without interruption: an
\* unlink that throws leaves the block
CleanupBody(f, tempFilePath, imageDir, t) ==
    LET a == IF Exists(f, tempFilePath) THEN TryUnlink(f, tempFilePath, t)
             ELSE [fs |-> f, err |-> FALSE]
    IN  IF a.err THEN a
        ELSE IF Exists(a.fs, imageDir) THEN [fs |-> RmForce(a.fs, imageDir, t), err |-> FALSE]
        ELSE a

\* route.ts:339-356  cleanupTempFiles, run without interruption: what the try block
\* throws is caught and logged, nothing is thrown to the caller
CleanupTempFiles(f, tempFilePath, imageDir, t) ==
    LET b == CleanupBody(f, tempFilePath, imageDir, t)
    IN  [fs |-> b.fs, caught |-> b.err, raised |-> FALSE]

\* the converter saves its images: it creates the directory of each and writes the file;
\* nothing can be saved below a path that is a file
RECURSIVE SaveImages(_, _, _)
SaveImages(f, paths, t) ==
    IF Len(paths) = 0 THEN f
    ELSE IF \E q \in Ancestors(Head(paths)) : Exists(f, q) /\ f[q].kind = "file"
    THEN SaveImages(f, Tail(paths), t)
    ELSE SaveImages(WriteFile(Mkdirp(f, Parent(Head(paths)), t), Head(paths), "image", t),
                    Tail(paths), t)

\* the directories are created before the upload is validated
ConvReceive_MkdirFirst(r, file) ==
    /\ conv[r].pc = "idle"
    /\ fs' = Mkdirp(Mkdirp(fs, ConvTempDir(env), now), ConvOutputDir(env), now)
    /\ conv' = [conv EXCEPT ![r] =
                  IF ValidationStatus(file) # 0
                  THEN [@ EXCEPT !.pc = "done", !.status = ValidationStatus(file),
                                  !.err = ValidationError(file), !.file = file]
                  ELSE [@ EXCEPT !.pc = "mkdir", !.file = file]]
    /\ UNCHANGED <<now, env, srv, bg, cln, swp, mw>>

\* route.ts:13-62  the form is read and validated: 400, 413, 400, or the upload is accepted
ConvReceive(r, file) ==
    /\ conv[r].pc = "idle"
    /\ conv' = [conv EXCEPT ![r] =
                  IF ValidationStatus(file) # 0
                  THEN [@ EXCEPT !.pc = "done", !.status = ValidationStatus(file),
                                  !.err = ValidationError(file), !.file = file]
                  ELSE [@ EXCEPT !.pc = "mkdir", !.file = file]]
    /\ UNCHANGED <<now, env, fs, srv, bg, cln, swp, mw>>

\* route.ts:13-62  the form is read with its optional fields and validated
ConvReceiveForm(r, file, form) ==
    /\ conv[r].pc = "idle"
    /\ conv' = [conv EXCEPT ![r] =
                  IF ValidationStatus(file) # 0
                  THEN [@ EXCEPT !.pc = "done", !.status = ValidationStatus(file),
                                  !.err = ValidationError(file), !.file = file, !.form = form]
                  ELSE [@ EXCEPT !.pc = "mkdir", !.file = file, !.form = form]]
    /\ UNCHANGED <<now, env, fs, srv, bg, cln, swp, mw>>

\* route.ts:64-85 (part_002:87-96)  the directories are created when absent, the session
\* id is minted and the mode of the answer is decided
ConvMkdirs(r, suffix) ==
    /\ conv[r].pc = "mkdir"
    /\ fs' = Mkdirp(Mkdirp(fs, ConvTempDir(env), now), ConvOutputDir(env), now)
    /\ conv' = [conv EXCEPT ![r] =
                  [@ EXCEPT !.pc = "stage", !.fileId = MkId(now, suffix),
                            !.name = SanitizeFileName(conv[r].file.name),
                            !.base64 = ShouldUseBase64(env, fs')]]
    /\ UNCHANGED <<now, env, srv, bg, cln, swp, mw>>

\* route.ts:87-91,252-259  the upload is staged; a failed write is answered by the outer catch
ConvStage(r) ==
    /\ conv[r].pc = "stage"
    /\ LET p == TempFilePath(env, conv[r])
       IN  IF Exists(fs, Parent(p)) /\ ~(Exists(fs, p) /\ fs[p].kind = "dir")
           THEN /\ fs' = WriteFile(fs, p, "upload", now)
                /\ conv' = [conv EXCEPT ![r] = [@ EXCEPT !.pc = "convert"]]
           ELSE /\ fs' = fs
                /\ conv' = [conv EXCEPT ![r] =
                              [@ EXCEPT !.pc = "done", !.status = 500,
                                        !.err = JsonError("Server error: ")]]
    /\ UNCHANGED <<now, env, srv, bg, cln, swp, mw>>

\* the failed write is ignored and the converter runs on
ConvStageFail_Continue(r) ==
    /\ conv[r].pc = "stage"
    /\ conv' = [conv EXCEPT ![r] = [@ EXCEPT !.pc = "convert"]]
    /\ UNCHANGED <<now, env, fs, srv, bg, cln, swp, mw>>

\* route.ts:89-91,252-259  reading the upload or writing it throws (full disk, no
\* permission): nothing is staged and the outer catch answers 500
ConvStageFail(r) ==
    /\ conv[r].pc = "stage"
    /\ conv' = [conv EXCEPT ![r] =
                  [@ EXCEPT !.pc = "done", !.status = 500,
                            !.err = JsonError("Server error: ")]]
    /\ UNCHANGED <<now, env, fs, srv, bg, cln, swp, mw>>

\* route.ts:101-121,184-193 (part_002:297-313)  the converter returns k images saved in
\* one layout.  With images the mirror is built next; without, the markdown is written
\* (disk mode) or encoded and the awaited cleanup starts (inline mode).
ConvConvertOk(r, k, layout) ==
    /\ conv[r].pc = "convert"
    /\ LET saved == [i \in 1..k |-> SavedPath(env, conv[r], layout, i)]
           f2 == SaveImages(fs, saved, now)
       IN  /\ fs' = f2
           /\ IF k > 0
              THEN /\ conv' = [conv EXCEPT ![r] = [@ EXCEPT !.pc = "mirror", !.images = saved,
                                                             !.converted = TRUE]]
                   /\ cln' = cln
              ELSE IF conv[r].base64
              THEN /\ conv' = [conv EXCEPT ![r] = [@ EXCEPT !.pc = "cleanup", !.url = "data",
                                                             !.converted = TRUE]]
                   /\ cln' = [cln EXCEPT ![r].fg =
                                CleanupStart(f2, TempFilePath(env, conv[r]), ImageDir(env, conv[r]))]
              ELSE /\ conv' = [conv EXCEPT ![r] = [@ EXCEPT !.pc = "writemd",
                                                             !.converted = TRUE]]
                   /\ cln' = cln
    /\ UNCHANGED <<now, env, srv, bg, swp, mw>>

\* route.ts:101,233-243  the converter throws, having saved k images in imageDir: the
\* catch block starts the cleanup it awaits
ConvConvertThrow(r, k) ==
    /\ conv[r].pc = "convert"
    /\ LET f2 == SaveImages(fs, [i \in 1..k |-> SavedPath(env, conv[r], 1, i)], now)
       IN  /\ fs' = f2
           /\ cln' = [cln EXCEPT ![r].fg =
                        CleanupStart(f2, TempFilePath(env, conv[r]), ImageDir(env, conv[r]))]
    /\ conv' = [conv EXCEPT ![r] = [@ EXCEPT !.pc = "catch", !.converted = TRUE]]
    /\ UNCHANGED <<now, env, srv, bg, swp, mw>>

\* route.ts:129-130  mkdir(publicImagesDir, {recursive: true})
ConvMirrorMkdir(r) ==
    /\ conv[r].pc = "mirror"
    /\ fs' = Mkdirp(fs, PublicImagesDir(env, conv[r]), now)
    /\ conv' = [conv EXCEPT ![r] = [@ EXCEPT !.pc = "copy", !.i = 1]]
    /\ UNCHANGED <<now, env, srv, bg, cln, swp, mw>>

\* route.ts:133-151  the copy of image i has settled: the loop passes to the next image,
\* or ends; skipped records the images whose copy failed
CopyAdvance(c, ok) ==
    LET d == [c EXCEPT !.skipped = IF ok THEN @ ELSE @ \cup {c.i}, !.inflight = @ \ {c.i}]
    IN  IF c.i = Len(c.images) THEN [d EXCEPT !.pc = "zipstart", !.i = 0]
        ELSE [d EXCEPT !.i = @ + 1]

\* the copy is started and the loop goes on without waiting for it
ConvCopyIssue_NoAwait(r) ==
    /\ conv[r].pc = "copy"
    /\ conv[r].i \notin conv[r].inflight
    /\ conv' = [conv EXCEPT ![r] =
                  IF conv[r].i = Len(conv[r].images)
                  THEN [@ EXCEPT !.pc = "zipstart", !.i = 0, !.inflight = @ \cup {conv[r].i}]
                  ELSE [@ EXCEPT !.i = @ + 1, !.inflight = @ \cup {conv[r].i}]]
    /\ UNCHANGED <<now, env, fs, srv, bg, cln, swp, mw>>

\* route.ts:137-146  the copy of image i is started (access, readFile, writeFile) and
\* awaited: the loop is suspended while it is in flight
ConvCopyIssue(r) ==
    /\ conv[r].pc = "copy"
    /\ conv[r].inflight = {}
    /\ conv' = [conv EXCEPT ![r] = [@ EXCEPT !.inflight = {conv[r].i}]]
    /\ UNCHANGED <<now, env, fs, srv, bg, cln, swp, mw>>

\* a copy that throws ends the loop
ConvCopyImageFail_Abort(r) ==
    /\ conv[r].pc = "copy"
    /\ conv[r].i \in conv[r].inflight
    /\ conv' = [conv EXCEPT ![r] =
                  [@ EXCEPT !.pc = "zipstart", !.i = 0, !.skipped = @ \cup {conv[r].i},
                            !.inflight = {}]]
    /\ UNCHANGED <<now, env, fs, srv, bg, cln, swp, mw>>

\* route.ts:133-151  the copy of image i into the mirror completes; a failed copy is
\* skipped
ConvCopyImage(r) ==
    /\ conv[r].pc = "copy"
    /\ conv[r].i \in conv[r].inflight
    /\ LET src == conv[r].images[conv[r].i]
           dest == PathJoin(PublicImagesDir(env, conv[r]), <<Basename(src[Len(src)])>>)
           ok == /\ Exists(fs, src)
                 /\ fs[src].kind = "file"
                 /\ Exists(fs, Parent(dest))
       IN  /\ fs' = IF ok THEN WriteFile(fs, dest, fs[src].data, now) ELSE fs
           /\ conv' = [conv EXCEPT ![r] = CopyAdvance(conv[r], ok)]
    /\ UNCHANGED <<now, env, srv, bg, cln, swp, mw>>

\* route.ts:138-150  access, readFile or writeFile throws on an image that is on disk:
\* the inner catch swallows it and the loop goes on
ConvCopyImageFail(r) ==
    /\ conv[r].pc = "copy"
    /\ conv[r].i \in conv[r].inflight
    /\ conv' = [conv EXCEPT ![r] = CopyAdvance(conv[r], FALSE)]
    /\ UNCHANGED <<now, env, fs, srv, bg, cln, swp, mw>>

\* cleanupTempFiles is called while the archive is still being set up
ZipStart_CleanupEarly(r) ==
    /\ conv[r].pc = "zipstart"
    /\ fs' = IF Exists(fs, Parent(ZipPath(env, conv[r])))
             THEN WriteFile(fs, ZipPath(env, conv[r]), "zip-partial", now)
             ELSE fs
    /\ conv' = [conv EXCEPT ![r] = [@ EXCEPT !.pc = "zip", !.zip = "streaming", !.i = 1]]
    /\ cln' = [cln EXCEPT ![r].bg =
                 CleanupStart(fs, TempFilePath(env, conv[r]), ImageDir(env, conv[r]))]
    /\ UNCHANGED <<now, env, srv, bg, swp, mw>>

\* route.ts:157,270-335  createZipFile: the output stream is opened on zipPath, the
\* markdown and the images are queued, the archive is finalized
ZipStart(r) ==
    /\ conv[r].pc = "zipstart"
    /\ fs' = IF Exists(fs, Parent(ZipPath(env, conv[r])))
             THEN WriteFile(fs, ZipPath(env, conv[r]), "zip-partial", now)
             ELSE fs
    /\ conv' = [conv EXCEPT ![r] = [@ EXCEPT !.pc = "zip", !.zip = "streaming", !.i = 1]]
    /\ UNCHANGED <<now, env, srv, bg, cln, swp, mw>>

\* route.ts:325  the archive streams the next queued image from its saved path; a
\* file that is gone is left out
ZipEntry(r) ==
    /\ conv[r].pc = "zip"
    /\ conv[r].i <= Len(conv[r].images)
    /\ LET src == conv[r].images[conv[r].i]
       IN  conv' = [conv EXCEPT ![r] =
                      [@ EXCEPT !.i = @ + 1,
                                !.entries = IF Exists(fs, src) /\ fs[src].kind = "file"
                                            THEN @ \cup {conv[r].i} ELSE @]]
    /\ UNCHANGED <<now, env, fs, srv, bg, cln, swp, mw>>

\* route.ts:281-286,233-243  the archive reports an error: its handler fires a cleanup
\* and rejects, and the catch block starts the cleanup it awaits
ZipFail(r) ==
    /\ conv[r].pc = "zip"
    /\ conv' = [conv EXCEPT ![r] = [@ EXCEPT !.pc = "catch", !.zip = "error"]]
    /\ cln' = [cln EXCEPT
                 ![r].bg = CleanupStart(fs, TempFilePath(env, conv[r]), ImageDir(env, conv[r])),
                 ![r].fg = CleanupStart(fs, TempFilePath(env, conv[r]), ImageDir(env, conv[r]))]
    /\ UNCHANGED <<now, env, fs, srv, bg, swp, mw>>

\* route.ts:274-279,158-231 (part_002:182-184)  the output stream closes: its handler fires
\* a cleanup and resolves; disk mode answers with the relative URL, inline mode goes on
\* to read the archive back
ZipClose(r) ==
    /\ conv[r].pc = "zip"
    /\ conv[r].i > Len(conv[r].images)
    /\ fs' = IF Exists(fs, ZipPath(env, conv[r]))
             THEN WriteFile(fs, ZipPath(env, conv[r]), "zip", now)
             ELSE fs
    /\ cln' = [cln EXCEPT ![r].bg =
                 CleanupStart(fs, TempFilePath(env, conv[r]), ImageDir(env, conv[r]))]
    /\ conv' = [conv EXCEPT ![r] =
                  IF conv[r].base64
                  THEN [@ EXCEPT !.pc = "inlineread", !.zip = "closed"]
                  ELSE [@ EXCEPT !.pc = "done", !.zip = "closed", !.status = 200,
                                 !.url = "relative", !.resp = SuccessBody(conv[r], "zip")]]
    /\ UNCHANGED <<now, env, srv, bg, swp, mw>>

\* the archive is read back and left in the output directory
ConvInlineZip_KeepArchive(r) ==
    /\ conv[r].pc \in {"inlineread", "inlineunlink"}
    /\ Exists(fs, ZipPath(env, conv[r]))
    /\ conv' = [conv EXCEPT ![r] =
                  IF conv[r].pc = "inlineread" THEN [@ EXCEPT !.pc = "inlineunlink"]
                  ELSE [@ EXCEPT !.pc = "done", !.status = 200, !.url = "data",
                                 !.resp = SuccessBody(conv[r], "zip")]]
    /\ UNCHANGED <<now, env, fs, srv, bg, cln, swp, mw>>

\* part_002:183-190,354-364  inline mode: the archive is read back and then unlinked, and
\* the answer carries it as a data URL; a failure of either goes to the catch block
ConvInlineZip(r) ==
    /\ conv[r].pc \in {"inlineread", "inlineunlink"}
    /\ IF Exists(fs, ZipPath(env, conv[r]))
       THEN /\ cln' = cln
            /\ IF conv[r].pc = "inlineread"
               THEN /\ fs' = fs
                    /\ conv' = [conv EXCEPT ![r] = [@ EXCEPT !.pc = "inlineunlink"]]
               ELSE /\ fs' = Unlink(fs, ZipPath(env, conv[r]), now)
                    /\ conv' = [conv EXCEPT ![r] =
                                  [@ EXCEPT !.pc = "done", !.status = 200, !.url = "data",
                                            !.resp = SuccessBody(conv[r], "zip")]]
       ELSE /\ fs' = fs
            /\ conv' = [conv EXCEPT ![r] = [@ EXCEPT !.pc = "catch"]]
            /\ cln' = [cln EXCEPT ![r].fg =
                         CleanupStart(fs, TempFilePath(env, conv[r]), ImageDir(env, conv[r]))]
    /\ UNCHANGED <<now, env, srv, bg, swp, mw>>

\* the markdown is written and the response is built without cleanupTempFiles
ConvWriteMd_NoCleanup(r) ==
    /\ conv[r].pc = "writemd"
    /\ Exists(fs, Parent(MdPath(env, conv[r])))
    /\ fs' = WriteFile(fs, MdPath(env, conv[r]), "markdown", now)
    /\ conv' = [conv EXCEPT ![r] = [@ EXCEPT !.pc = "cleanup", !.url = "relative"]]
    /\ cln' = [cln EXCEPT ![r].fg = "done"]
    /\ UNCHANGED <<now, env, srv, bg, swp, mw>>

\* route.ts:186-192  disk mode without images: the markdown is written to the output
\* directory and the awaited cleanup starts
ConvWriteMd(r) ==
    /\ conv[r].pc = "writemd"
    /\ Exists(fs, Parent(MdPath(env, conv[r])))
    /\ fs' = WriteFile(fs, MdPath(env, conv[r]), "markdown", now)
    /\ conv' = [conv EXCEPT ![r] = [@ EXCEPT !.pc = "cleanup", !.url = "relative"]]
    /\ cln' = [cln EXCEPT ![r].fg =
                 CleanupStart(fs', TempFilePath(env, conv[r]), ImageDir(env, conv[r]))]
    /\ UNCHANGED <<now, env, srv, bg, swp, mw>>

\* the call ends once the staged input is unlinked
ClnUnlink_EndsCall(r, slot) ==
    /\ cln[r][slot] = "unlink"
    /\ LET p == TempFilePath(env, conv[r])
       IN  fs' = IF Exists(fs, p) /\ fs[p].kind = "file" THEN Unlink(fs, p, now) ELSE fs
    /\ cln' = [cln EXCEPT ![r][slot] = "done"]
    /\ UNCHANGED <<now, env, srv, bg, conv, swp, mw>>

\* route.ts:343-350  the unlink of the staged input completes, then existsSync(imageDir)
\* and the rm it issues; an unlink that throws ends the call in its catch (route.ts:352)
ClnUnlink(r, slot) ==
    /\ cln[r][slot] = "unlink"
    /\ LET p == TempFilePath(env, conv[r])
       IN  IF Exists(fs, p) /\ fs[p].kind = "file"
           THEN /\ fs' = Unlink(fs, p, now)
                /\ cln' = [cln EXCEPT ![r][slot] =
                             IF Exists(fs', ImageDir(env, conv[r])) THEN "rm" ELSE "done"]
           ELSE /\ fs' = fs
                /\ cln' = [cln EXCEPT ![r][slot] = "done"]
    /\ UNCHANGED <<now, env, srv, bg, conv, swp, mw>>

\* route.ts:348-350  rm(imageDir, {recursive: true, force: true}) completes
ClnRm(r, slot) ==
    /\ cln[r][slot] = "rm"
    /\ fs' = IF Exists(fs, ImageDir(env, conv[r]))
             THEN Touch(RmTree(fs, ImageDir(env, conv[r])), {Parent(ImageDir(env, conv[r]))}, now)
             ELSE fs
    /\ cln' = [cln EXCEPT ![r][slot] = "done"]
    /\ UNCHANGED <<now, env, srv, bg, conv, swp, mw>>

\* route.ts:192-231,240-249  the awaited cleanup has returned: 200 after a conversion
\* without images, 500 from the catch block
ConvRespond(r) ==
    /\ conv[r].pc \in {"cleanup", "catch"}
    /\ cln[r].fg = "done"
    /\ conv' = [conv EXCEPT ![r] =
                  [@ EXCEPT !.pc = "done",
                            !.status = IF conv[r].pc = "cleanup" THEN 200 ELSE 500,
                            !.err = IF conv[r].pc = "cleanup" THEN NoBody
                                    ELSE JsonError("Conversion failed: "),
                            !.resp = IF conv[r].pc = "cleanup" THEN SuccessBody(conv[r], "md")
                                     ELSE NoResp]]
    /\ UNCHANGED <<now, env, fs, srv, bg, cln, swp, mw>>

(***************************************************************************)
(* POST /api/cleanup  (src/unnamed/part_000).                              *)
(***************************************************************************)
\* the sweeps of the model
Sweepers == {1}

SwpIdle ==
    [pc |-> "idle", dirs |-> <<>>, left |-> {}, t |-> 0, cur |-> NoPath, cleaned |-> 0,
     last |-> [path |-> NoPath, at |-> 0], failed |-> {}, removed |-> {},
     unread |-> {}]

\* an entry exactly as old as the retention window is swept too
OlderThanCleanupAge_Inclusive(t, mtime) == t - mtime >= CLEANUP_AGE_MS

\* the retention window taken in minutes
OlderThanCleanupAge_Minutes(t, mtime) == t - mtime > CLEANUP_AGE_MS \div 60

\* part_000:57  now - stats.mtime.getTime() > CLEANUP_AGE_MS
OlderThanCleanupAge(t, mtime) == t - mtime > CLEANUP_AGE_MS

\* part_000:19-26  the directories still to sweep: each is swept if it exists when its
\* turn comes
SweepDirs(f, dirs) ==
    IF Len(dirs) = 0 THEN dirs
    ELSE IF Exists(f, Head(dirs)) THEN dirs
    ELSE IF Len(dirs) = 1 THEN <<>>
    ELSE IF Exists(f, dirs[2]) THEN Tail(dirs)
    ELSE <<>>

\* part_000:52,71,76,19-31  after a child is dealt with: the next child, the next
\* directory, or the response
SweepContinue(sw, f, left) ==
    IF left # {} THEN [sw EXCEPT !.pc = "stat", !.left = left, !.cur = NoPath]
    ELSE LET rest == SweepDirs(f, Tail(sw.dirs))
         IN  [sw EXCEPT !.pc = IF Len(rest) = 0 THEN "done" ELSE "readdir",
                        !.dirs = rest, !.left = {}, !.cur = NoPath]

\* part_000:11-26  the request arrives: cleaned = 0, existsSync of the first directory
SweepStart(k) ==
    /\ swp[k].pc = "idle"
    /\ LET dirs == SweepDirs(fs, <<CwdDownloads, CwdTemp>>)
       IN  swp' = [swp EXCEPT ![k] =
                     [SwpIdle EXCEPT !.pc = IF Len(dirs) = 0 THEN "done" ELSE "readdir",
                                     !.dirs = dirs]]
    /\ UNCHANGED <<now, env, fs, srv, bg, conv, cln, mw>>

\* part_000:49-50,72-76  readdir returns the children (or throws: nothing is swept
\* there), then now = Date.now()
SweepReaddir(k) ==
    /\ swp[k].pc = "readdir"
    /\ LET dir == Head(swp[k].dirs)
           children == IF Exists(fs, dir) THEN {q \in DOMAIN fs : Len(q) > 1 /\ Parent(q) = dir}
                       ELSE {}
       IN  swp' = [swp EXCEPT ![k] = SweepContinue([@ EXCEPT !.t = now], fs, children)]
    /\ UNCHANGED <<now, env, fs, srv, bg, conv, cln, mw>>

\* a child that is gone is passed over and the loop goes on
SweepStat_SkipMissing(k, child) ==
    /\ swp[k].pc = "stat"
    /\ child \in swp[k].left
    /\ swp' = [swp EXCEPT ![k] =
                 IF ~Exists(fs, child)
                 THEN SweepContinue([@ EXCEPT !.unread = @ \cup {child}], fs, @.left \ {child})
                 ELSE IF OlderThanCleanupAge(@.t, fs[child].mtime)
                 THEN [@ EXCEPT !.pc = "unlink", !.cur = child, !.left = @ \ {child}]
                 ELSE SweepContinue(@, fs, @.left \ {child})]
    /\ UNCHANGED <<now, env, fs, srv, bg, conv, cln, mw>>

\* part_000:52-57,72-76  stat of the next child: a stat that throws ends the sweep of
\* this directory (unread: the children whose stat threw); a child older than the
\* cleanup age is unlinked next
SweepStat(k, child) ==
    /\ swp[k].pc = "stat"
    /\ child \in swp[k].left
    /\ swp' = [swp EXCEPT ![k] =
                 IF ~Exists(fs, child)
                 THEN SweepContinue([@ EXCEPT !.unread = @ \cup {child}], fs, {})
                 ELSE IF OlderThanCleanupAge(@.t, fs[child].mtime)
                 THEN [@ EXCEPT !.pc = "unlink", !.cur = child, !.left = @ \ {child}]
                 ELSE SweepContinue(@, fs, @.left \ {child})]
    /\ UNCHANGED <<now, env, fs, srv, bg, conv, cln, mw>>

\* part_000:58-62  unlink(filePath): a file is removed and counted; a directory or a
\* missing entry makes unlink throw, and rm is tried
SweepUnlink(k) ==
    /\ swp[k].pc = "unlink"
    /\ LET p == swp[k].cur
       IN  IF Exists(fs, p) /\ fs[p].kind = "file"
           THEN /\ fs' = Unlink(fs, p, now)
                /\ swp' = [swp EXCEPT ![k] =
                             SweepContinue([@ EXCEPT !.cleaned = @ + 1,
                                                     !.removed = @ \cup {p},
                                                     !.last = [path |-> p, at |-> now]],
                                           fs', @.left)]
           ELSE /\ fs' = fs
                /\ swp' = [swp EXCEPT ![k] = [@ EXCEPT !.pc = "rm"]]
    /\ UNCHANGED <<now, env, srv, bg, conv, cln, mw>>

\* part_000:63-65  rm(filePath, {recursive: true, force: true}) and cleaned++; with
\* force the call returns normally when the entry is already gone.  removed: the
\* entries this sweep took off the disk itself.
SweepRm(k) ==
    /\ swp[k].pc = "rm"
    /\ LET p == swp[k].cur
       IN  /\ fs' = IF Exists(fs, p) THEN Touch(RmTree(fs, p), {Parent(p)}, now) ELSE fs
           /\ swp' = [swp EXCEPT ![k] =
                        SweepContinue([@ EXCEPT !.cleaned = @ + 1,
                                                !.removed = IF Exists(fs, p)
                                                            THEN @ \cup {p} ELSE @,
                                                !.last = IF Exists(fs, p)
                                                         THEN [path |-> p, at |-> now]
                                                         ELSE @],
                                      fs', @.left)]
    /\ UNCHANGED <<now, env, srv, bg, conv, cln, mw>>

\* the failed removal aborts the sweep of the directory
SweepRmFail_Abort(k) ==
    /\ swp[k].pc = "rm"
    /\ swp' = [swp EXCEPT ![k] = SweepContinue([@ EXCEPT !.failed = @ \cup {swp[k].cur}], fs, {})]
    /\ UNCHANGED <<now, env, fs, srv, bg, conv, cln, mw>>

\* part_000:59-62  unlink(filePath) throws for a reason of the system's (EPERM, EBUSY):
\* rm is tried
SweepUnlinkFail(k) ==
    /\ swp[k].pc = "unlink"
    /\ Exists(fs, swp[k].cur)
    /\ swp' = [swp EXCEPT ![k] = [@ EXCEPT !.pc = "rm"]]
    /\ UNCHANGED <<now, env, fs, srv, bg, conv, cln, mw>>

\* part_000:63-68  rm(filePath) throws too: the child is not counted, the loop goes on
SweepRmFail(k) ==
    /\ swp[k].pc = "rm"
    /\ swp' = [swp EXCEPT ![k] =
                 SweepContinue([@ EXCEPT !.failed = @ \cup {swp[k].cur}], fs, @.left)]
    /\ UNCHANGED <<now, env, fs, srv, bg, conv, cln, mw>>

\* part_000:28-31  the response with the count has been sent
SweepReturn(k) ==
    /\ swp[k].pc = "done"
    /\ swp' = [swp EXCEPT ![k] = SwpIdle]
    /\ UNCHANGED <<now, env, fs, srv, bg, conv, cln, mw>>

\* wall-clock time passes to a later observed instant
Tick ==
    /\ \E t \in Instants : t > now /\ now' = t
    /\ UNCHANGED <<env, fs, srv, bg, conv, cln, swp, mw>>

(***************************************************************************)
(* middleware  (src/src/middleware.ts).                                    *)
(***************************************************************************)
\* middleware.ts:5  let lastCleanup = 0: the epoch, which lies further back from the
\* first instant than any interval of the model.  triggers: the instants at which a
\* cleanup was triggered; pending: the cleanup requests sent and not yet received.
\* req: the last inbound request (ran: the middleware ran on it; next: it was passed on
\* to its handler); failed: the instants of the triggers whose cleanup request failed.
NoReq == [path |-> <<>>, ran |-> FALSE, next |-> FALSE]

MwIdle ==
    [lastCleanup |-> StartTime - 2 * CLEANUP_INTERVAL - 2, triggers |-> <<>>, pending |-> 0,
     req |-> NoReq, failed |-> {}]

\* a cleanup is due once the interval is reached
CleanupDue_Inclusive(t, lastCleanup) == t - lastCleanup >= CLEANUP_INTERVAL

\* middleware.ts:11  now - lastCleanup > CLEANUP_INTERVAL
CleanupDue(t, lastCleanup) == t - lastCleanup > CLEANUP_INTERVAL

\* middleware.ts:8-23  a request passes the middleware, which runs to completion: when a
\* cleanup is due, lastCleanup is set and POST /api/cleanup is sent without waiting
Middleware ==
    /\ CleanupDue(now, mw.lastCleanup)
    /\ mw' = [mw EXCEPT !.lastCleanup = now, !.triggers = Append(@, now),
                         !.pending = @ + 1]
    /\ UNCHANGED <<now, env, fs, srv, bg, conv, cln, swp>>

\* middleware.ts:15-19, part_000:11-26  the cleanup request the middleware sent arrives
\* and the sweep starts (a request that fails is ignored and starts nothing)
CleanupFetch(k) ==
    /\ mw.pending > 0
    /\ swp[k].pc = "idle"
    /\ LET dirs == SweepDirs(fs, <<CwdDownloads, CwdTemp>>)
       IN  swp' = [swp EXCEPT ![k] =
                     [SwpIdle EXCEPT !.pc = IF Len(dirs) = 0 THEN "done" ELSE "readdir",
                                     !.dirs = dirs]]
    /\ mw' = [mw EXCEPT !.pending = @ - 1]
    /\ UNCHANGED <<now, env, fs, srv, bg, conv, cln>>

\* middleware.ts:34  the prefixes the matcher's negative lookahead names
ExcludedPrefixes ==
    { <<"a", "p", "i", "/", "c", "l", "e", "a", "n", "u", "p">>,
      <<"_", "n", "e", "x", "t", "/", "s", "t", "a", "t", "i", "c">>,
      <<"_", "n", "e", "x", "t", "/", "i", "m", "a", "g", "e">>,
      <<"f", "a", "v", "i", "c", "o", "n", ".", "i", "c", "o">> }

\* the cleanup route is matched like every other
Matcher_NoCleanupExclusion(path) ==
    /\ Len(path) >= 1 /\ path[1] = "/"
    /\ \A x \in ExcludedPrefixes \ {<<"a", "p", "i", "/", "c", "l", "e", "a", "n", "u", "p">>} : ~StartsWith(Tail(path), x)

\* middleware.ts:26-35  '/((?!api/cleanup|_next/static|_next/image|favicon.ico).*)':
\* the middleware runs on a path whose part after the first slash starts with none of
\* the prefixes
Matcher(path) ==
    /\ Len(path) >= 1 /\ path[1] = "/"
    /\ \A x \in ExcludedPrefixes : ~StartsWith(Tail(path), x)

\* middleware.ts:15  `${request.nextUrl.origin}/api/cleanup`
CleanupPath == <<"/", "a", "p", "i", "/", "c", "l", "e", "a", "n", "u", "p">>

\* middleware.ts:8-23,25-36  an inbound request for path at instant t: where the matcher
\* lets the middleware run and a cleanup is due, lastCleanup is set and the cleanup
\* request is sent without waiting; the request is passed on to its handler
MwRun(m, path, t) ==
    LET seen == [path |-> path, ran |-> Matcher(path), next |-> TRUE]
    IN  IF Matcher(path) /\ CleanupDue(t, m.lastCleanup)
        THEN [m EXCEPT !.lastCleanup = t, !.triggers = Append(@, t), !.pending = @ + 1,
                       !.req = seen]
        ELSE [m EXCEPT !.req = seen]

\* a request for path arrives
Inbound(path) ==
    /\ mw' = MwRun(mw, path, now)
    /\ UNCHANGED <<now, env, fs, srv, bg, conv, cln, swp>>

\* middleware.ts:15-19,25-36, part_000:11-26  the cleanup request the middleware sent
\* arrives as an inbound request for CleanupPath, and the sweep starts
CleanupArrive(k) ==
    /\ mw.pending > 0
    /\ swp[k].pc = "idle"
    /\ LET dirs == SweepDirs(fs, <<CwdDownloads, CwdTemp>>)
       IN  swp' = [swp EXCEPT ![k] =
                     [SwpIdle EXCEPT !.pc = IF Len(dirs) = 0 THEN "done" ELSE "readdir",
                                     !.dirs = dirs]]
    /\ mw' = MwRun([mw EXCEPT !.pending = @ - 1], CleanupPath, now)
    /\ UNCHANGED <<now, env, fs, srv, bg, conv, cln>>

\* the failed attempt is forgotten: lastCleanup goes back to the epoch
CleanupFetchFail_Rewind ==
    /\ mw.pending > 0
    /\ \E i \in 1..Len(mw.triggers) :
          /\ mw.triggers[i] \notin mw.failed
          /\ mw' = [mw EXCEPT !.pending = @ - 1, !.failed = @ \cup {mw.triggers[i]},
                               !.lastCleanup = MwIdle.lastCleanup]
    /\ UNCHANGED <<now, env, fs, srv, bg, conv, cln, swp>>

\* middleware.ts:15-19  the cleanup request of one of the triggers fails (network error,
\* server not reachable): the rejection is caught and nothing else happens
CleanupFetchFail ==
    /\ mw.pending > 0
    /\ \E i \in 1..Len(mw.triggers) :
          /\ mw.triggers[i] \notin mw.failed
          /\ mw' = [mw EXCEPT !.pending = @ - 1, !.failed = @ \cup {mw.triggers[i]}]
    /\ UNCHANGED <<now, env, fs, srv, bg, conv, cln, swp>>

\* the instants at which the middleware's clock is observed: each multiple of the
\* interval and the millisecond that follows
HalfInstants ==
    {StartTime + k * CLEANUP_INTERVAL + e : k \in 0..(2 * MaxHours), e \in {0, 1}}

\* wall-clock time passes to a later instant of the middleware's clock
TickHalf ==
    /\ \E t \in HalfInstants : t > now /\ now' = t
    /\ UNCHANGED <<env, fs, srv, bg, conv, cln, swp, mw>>

(***************************************************************************)
(* The deployment: conversions, image requests, sweeps and the clock.      *)
(***************************************************************************)
\* the uploads of the model: none, oversized, of an unsupported type, and accepted ones
Uploads ==
    { NoFile,
      [present |-> TRUE, size |-> MAX_SIZE + 1, type |-> "application/pdf",
       name |-> <<"a", ".", "p", "d", "f">>],
      [present |-> TRUE, size |-> 1, type |-> "text/plain", name |-> <<"a", ".", "t", "x", "t">>],
      [present |-> TRUE, size |-> MAX_SIZE, type |-> "application/pdf",
       name |-> <<"a", ".", "p", "d", "f">>] }

\* the directories that exist before the first request: the working directory with
\* public/downloads, and /tmp
BaseFs == FsWith({}, StartTime)

Init ==
    /\ now = StartTime
    /\ env \in [vercel : BOOLEAN, inline : BOOLEAN]
    /\ fs = BaseFs
    /\ srv = SrvIdle
    /\ bg = {}
    /\ conv = [r \in Reqs |-> ConvIdle]
    /\ cln = [r \in Reqs |-> ClnIdle]
    /\ swp = [k \in Sweepers |-> SwpIdle]
    /\ mw = MwIdle

\* the steps of convert request r that take no input
ConvSteps(r) ==
    \/ ConvStage(r)
    \/ ConvMirrorMkdir(r)
    \/ ConvCopyIssue(r)
    \/ ConvCopyImage(r)
    \/ ZipStart(r)
    \/ ZipEntry(r)
    \/ ZipFail(r)
    \/ ZipClose(r)
    \/ ConvInlineZip(r)
    \/ ConvWriteMd(r)
    \/ \E slot \in {"fg", "bg"} : ClnUnlink(r, slot)
    \/ \E slot \in {"fg", "bg"} : ClnRm(r, slot)
    \/ ConvRespond(r)

\* the steps of convert request r, the converter saving up to MaxImages images in any
\* layout
ConvNext(r) ==
    \/ \E file \in Uploads : ConvReceive(r, file)
    \/ \E suffix \in Suffixes : ConvMkdirs(r, suffix)
    \/ \E k \in 0..MaxImages, layout \in 1..4 : ConvConvertOk(r, k, layout)
    \/ \E k \in 0..1 : ConvConvertThrow(r, k)
    \/ ConvCopyImageFail(r)
    \/ ConvSteps(r)

\* the steps of convert request r, the converter saving at most one image, in imageDir
ConvNextPlain(r) ==
    \/ \E file \in Uploads : ConvReceive(r, file)
    \/ ConvMkdirs(r, <<"a">>)
    \/ \E k \in 0..1 : ConvConvertOk(r, k, 1)
    \/ ConvConvertThrow(r, 0)
    \/ ConvSteps(r)

\* one conversion from upload to response, nothing else running
NextConvert == ConvNext(1)

SpecConvert == Init /\ [][NextConvert]_vars

\* the sessions image requests name: the ids minted so far (empty before), and a
\* malformed one
SessionsAsked == {conv[r].fileId : r \in Reqs} \cup {<<"7", "-">>}

\* the image paths requests name: an image name, a traversal, none
PathsAsked == {<<"a">>, <<".", ".", "/", "a">>, <<>>}

\* the steps of the image route and of the deletions it fires
ServeNext ==
    \/ \E session \in SessionsAsked, imagePath \in PathsAsked : ServeRequest(session, imagePath)
    \/ ServeRead
    \/ ServeReturn
    \/ \E task \in bg : ExpiredCheck(task)
    \/ \E task \in bg : ExpiredRm(task)

\* the steps of sweep k
SweepNext(k) ==
    \/ SweepStart(k)
    \/ SweepReaddir(k)
    \/ \E child \in swp[k].left : SweepStat(k, child)
    \/ SweepUnlink(k)
    \/ SweepRm(k)
    \/ SweepReturn(k)

\* a conversion, image requests and the clock
NextImages == ConvNextPlain(1) \/ ServeNext \/ Tick

SpecImages == Init /\ [][NextImages]_vars

\* a conversion, sweeps and the clock
NextCleanup == ConvNextPlain(1) \/ (\E k \in Sweepers : SweepNext(k)) \/ Tick

SpecCleanup == Init /\ [][NextCleanup]_vars

\* the steps of the sweeps the middleware triggers
MwSweepNext(k) ==
    \/ CleanupFetch(k)
    \/ SweepReaddir(k)
    \/ \E child \in swp[k].left : SweepStat(k, child)
    \/ SweepUnlink(k)
    \/ SweepRm(k)
    \/ SweepReturn(k)

\* request r is not being handled: a conversion lasts less than a step of the
\* middleware's clock
ConvQuiet(r) ==
    /\ conv[r].pc \in {"idle", "done"}
    /\ cln[r].fg \in {"none", "done"}
    /\ cln[r].bg \in {"none", "done"}

\* the clock of the middleware advances between two conversions
TickBetween == ConvQuiet(1) /\ TickHalf

\* a conversion, the requests passing the middleware of one process, the sweeps they
\* trigger, and the clock
NextMiddleware ==
    \/ ConvNextPlain(1)
    \/ Middleware
    \/ \E k \in Sweepers : MwSweepNext(k)
    \/ TickBetween

\* requests keep arriving (Middleware), and a cleanup request that was sent is handled
\* to its end
SpecMiddleware ==
    /\ Init
    /\ [][NextMiddleware]_vars
    /\ WF_vars(Middleware)
    /\ \A k \in Sweepers : WF_vars(MwSweepNext(k))

\* Number.prototype.toString(36): the character of digit d
Base36Char(d) == IF d < 10 THEN DigitChar(d) ELSE LowerSeq[d - 9]

\* the base-36 digits of the fraction num/den, 0 <= num < den, den a power of two (a
\* double): the expansion is finite and toString(36) prints all of it
RECURSIVE FractionToString36(_, _)
FractionToString36(num, den) ==
    IF num = 0 THEN <<>>
    ELSE <<Base36Char((num * 36) \div den)>> \o FractionToString36((num * 36) % den, den)

\* convert/route.ts:82  Math.random().toString(36).substring(2): "0" gives "", "0.i"
\* gives "i"
RandomSuffix(x) == FractionToString36(x.num, x.den)

\* values Math.random() may return: 0, 1/2 and 1/4096 (most values print 10 or 11 digits)
Draws == {[num |-> 0, den |-> 1], [num |-> 1, den |-> 2], [num |-> 1, den |-> 4096]}

\* the ids minted at the first instant from 1/2 and from 1/4096
IdHalf == MkId(StartTime, RandomSuffix([num |-> 1, den |-> 2]))
IdSmall == MkId(StartTime, RandomSuffix([num |-> 1, den |-> 4096]))

\* the uploads of two concurrent requests: an archive named x__<IdSmall>.zip and a pdf
\* named <IdHalf>-x.pdf
PairUploads ==
    { [present |-> TRUE, size |-> 1, type |-> "application/zip",
       name |-> <<"x", "_", "_">> \o IdSmall \o <<".", "z", "i", "p">>],
      [present |-> TRUE, size |-> 1, type |-> "application/pdf",
       name |-> IdHalf \o <<"-", "x", ".", "p", "d", "f">>] }

\* the steps of convert request r of a pair
ConvNextPair(r) ==
    \/ \E file \in PairUploads : ConvReceive(r, file)
    \/ \E x \in Draws : ConvMkdirs(r, RandomSuffix(x))
    \/ \E k \in 0..1 : ConvConvertOk(r, k, 1)
    \/ ConvSteps(r)

\* two conversions handled concurrently
NextPair == \E r \in Reqs : ConvNextPair(r)

SpecPair == Init /\ [][NextPair]_vars

\* uploads of every kind the validation tells apart: none, a pdf by type, a pdf by an
\* upper-case extension alone, an archive by type, a text file, a name without a dot, a
\* pdf by type named "images", and sizes of exactly MAX_SIZE and one byte more
TypedUploads ==
    { NoFile,
      [present |-> TRUE, size |-> 1, type |-> "application/pdf",
       name |-> <<"a", ".", "p", "d", "f">>],
      [present |-> TRUE, size |-> 1, type |-> "", name |-> <<"A", ".", "P", "D", "F">>],
      [present |-> TRUE, size |-> 1, type |-> "application/zip",
       name |-> <<"a", ".", "z", "i", "p">>],
      [present |-> TRUE, size |-> 1, type |-> "text/plain", name |-> <<"a", ".", "t", "x", "t">>],
      [present |-> TRUE, size |-> 1, type |-> "", name |-> <<"p", "d", "f">>],
      [present |-> TRUE, size |-> 1, type |-> "application/pdf",
       name |-> <<"i", "m", "a", "g", "e", "s">>],
      [present |-> TRUE, size |-> MAX_SIZE, type |-> "application/pdf",
       name |-> <<"a", ".", "p", "d", "f">>],
      [present |-> TRUE, size |-> MAX_SIZE + 1, type |-> "application/pdf",
       name |-> <<"a", ".", "p", "d", "f">>],
      [present |-> TRUE, size |-> MAX_SIZE + 1, type |-> "text/plain",
       name |-> <<"a", ".", "t", "x", "t">>] }

\* one conversion of an upload of any kind, the converter saving at most one image
NextValidate ==
    \/ \E file \in TypedUploads : ConvReceive(1, file)
    \/ ConvMkdirs(1, <<"a">>)
    \/ \E k \in 0..1 : ConvConvertOk(1, k, 1)
    \/ ConvConvertThrow(1, 0)
    \/ ConvCopyImageFail(1)
    \/ ConvStageFail(1)
    \/ ConvSteps(1)

SpecValidate == Init /\ [][NextValidate]_vars

\* one conversion of a pdf whose converter returns its images side by side in
\* imageDir or each in a directory of its own
NextZip ==
    \/ \E file \in {f \in Uploads : ValidationStatus(f) = 0} : ConvReceive(1, file)
    \/ ConvMkdirs(1, <<"a">>)
    \/ \E k \in 0..MaxImages, layout \in {1, 5} : ConvConvertOk(1, k, layout)
    \/ ConvSteps(1)

SpecZip == Init /\ [][NextZip]_vars

\* the instant of the sweeps that run alone
SweepNow == StartTime + 2 * maxAge

\* the children a swept directory may hold, with their ages: a second short of the
\* retention window, exactly as old, a second older, and a millisecond older (a directory)
SweptChildren ==
    { [name |-> <<"p">>, age |-> CLEANUP_AGE_MS - 1000, kind |-> "file"],
      [name |-> <<"r">>, age |-> CLEANUP_AGE_MS, kind |-> "file"],
      [name |-> <<"q">>, age |-> CLEANUP_AGE_MS + 1000, kind |-> "file"],
      [name |-> <<"s">>, age |-> CLEANUP_AGE_MS + 1, kind |-> "dir"] }

\* a filesystem whose downloads directory holds the children D and whose temp directory,
\* when there is one, holds the children T; the child directory holds a recent file
SweepFs(D, T, withTemp) ==
    LET base == BaseDirs \cup (IF withTemp THEN {CwdTemp} ELSE {})
        at(dir, cs) == {PathJoin(dir, <<c.name>>) : c \in cs}
        kids == at(CwdDownloads, D) \cup at(CwdTemp, T)
        child(q) == CHOOSE c \in D \cup T : c.name = q[Len(q)]
        inner == {PathJoin(q, <<<<"n">>>>) : q \in {x \in kids : child(x).kind = "dir"}}
    IN  [q \in base \cup kids \cup inner |->
            IF q \in kids
            THEN [kind |-> child(q).kind, mtime |-> SweepNow - child(q).age,
                  data |-> child(q).kind]
            ELSE IF q \in inner THEN [kind |-> "file", mtime |-> SweepNow, data |-> "image"]
            ELSE [kind |-> "dir", mtime |-> StartTime, data |-> "dir"]]

InitSweep ==
    /\ now = SweepNow
    /\ env = [vercel |-> FALSE, inline |-> FALSE]
    /\ \E D \in SUBSET SweptChildren, T \in SUBSET {c \in SweptChildren : c.kind = "file"},
          withTemp \in BOOLEAN :
          /\ T # {} => withTemp
          /\ fs = SweepFs(D, T, withTemp)
    /\ srv = SrvIdle
    /\ bg = {}
    /\ conv = [r \in Reqs |-> ConvIdle]
    /\ cln = [r \in Reqs |-> ClnIdle]
    /\ swp = [k \in Sweepers |-> SwpIdle]
    /\ mw = MwIdle

\* the steps of sweep k, removals that fail included
SweepNextFaulty(k) ==
    \/ SweepNext(k)
    \/ SweepUnlinkFail(k)
    \/ SweepRmFail(k)

\* one sweep at a time over directories nothing else touches
NextSweep == \E k \in Sweepers : SweepNextFaulty(k)

SpecSweep == InitSweep /\ [][NextSweep]_vars


(***************************************************************************)
(* The serve-image handler on its own, over every request up to the bounds *)
(* and every layout of one session's images.                               *)
(***************************************************************************)
PathAlphabet == {"a", ".", "/"}

\* every requested path of at most MaxPathLen characters; <<>> is a missing parameter
PathInputs == UNION {[1..n -> PathAlphabet] : n \in 0..MaxPathLen}

\* the instant of the requests: one retention window and a millisecond after StartTime
ServeNow == StartTime + maxAge + 1

\* the sessions whose images are on disk: one expired at ServeNow, one a millisecond
\* short of the retention window
StoredSessions == {MkId(StartTime, <<"a">>), MkId(StartTime + 2, <<"a">>)}

\* well-formed session ids of age maxAge + 1, maxAge, maxAge - 1, 0 and of a future
\* instant, and malformed ones
SessionInputs ==
    {MkId(t, <<"a">>) : t \in {StartTime, StartTime + 1, StartTime + 2, ServeNow,
                               ServeNow + maxAge}}
    \cup { <<>>, <<"7", "-">>, <<"-", "a">>, <<"7", "-", "a", "/", ".", ".">> }

\* where an image named "a" of a session may lie: the layouts route.ts:57,71-75 read
ServeLayouts(e, session) ==
    <<PrimaryPath(e, session, <<"a">>)>> \o AlternativePaths(e, session, <<"a">>)

InitServe ==
    /\ now = ServeNow
    /\ env \in {[vercel |-> v, inline |-> FALSE] : v \in BOOLEAN}
    /\ fs \in {FsWith({ServeLayouts(env, s)[i] : s \in StoredSessions, i \in L}, StartTime + 2) :
                  L \in {{}, {1}, {2}, {3}, {4}, {3, 4}, {2, 3, 4}, {1, 2, 3, 4}}}
    /\ srv = SrvIdle
    /\ bg = {}
    /\ conv = [r \in Reqs |-> ConvIdle]
    /\ cln = [r \in Reqs |-> ClnIdle]
    /\ swp = [k \in Sweepers |-> SwpIdle]
    /\ mw = MwIdle

NextServe ==
    \/ \E s \in SessionInputs, p \in PathInputs : ServeRequest(s, p)
    \/ ServeRead
    \/ ServeReturn

SpecServe == InitServe /\ [][NextServe]_vars

\* requests for the image "a" of every session of SessionInputs, and the deletions
\* they fire; a deletion that was fired runs on: the promise's continuation is queued
\* on the event loop and nothing cancels it
NextExpire ==
    \/ \E s \in SessionInputs : ServeRequest(s, <<"a">>)
    \/ ServeRead
    \/ ServeReturn
    \/ \E task \in bg : ExpiredTask(task)

\* the deletions the requests of NextExpire can fire
ExpireTasks ==
    {[dir |-> SandboxRoot([vercel |-> v, inline |-> FALSE], s), pc |-> p] :
        v \in BOOLEAN, s \in SessionInputs, p \in {"check", "rm"}}

SpecExpire ==
    InitServe /\ [][NextExpire]_vars /\ \A task \in ExpireTasks : WF_vars(ExpiredTask(task))

\* the paths of the inbound requests: pages and routes, the cleanup route and a path
\* below it, static files, and a path that holds api/cleanup further in
InboundPaths ==
    { <<"/">>, <<"/", "a", "p", "i", "/", "c", "o", "n", "v", "e", "r", "t">>, CleanupPath,
      <<"/", "a", "p", "i", "/", "c", "l", "e", "a", "n", "u", "p", "/", "x">>,
      <<"/", "_", "n", "e", "x", "t", "/", "s", "t", "a", "t", "i", "c", "/", "a">>,
      <<"/", "f", "a", "v", "i", "c", "o", "n", ".", "i", "c", "o">>,
      <<"/", "x", "/", "a", "p", "i", "/", "c", "l", "e", "a", "n", "u", "p">> }

\* a downloads directory with entries of every age and a temp directory with an old file
InitInbound ==
    /\ InitSweep
    /\ fs = SweepFs(SweptChildren, {c \in SweptChildren : c.name = <<"q">>}, TRUE)

\* the instants of the inbound requests: the first, one interval later, a millisecond more
InboundInstants == {SweepNow, SweepNow + CLEANUP_INTERVAL, SweepNow + CLEANUP_INTERVAL + 1}

TickInbound ==
    /\ \E t \in InboundInstants : t > now /\ now' = t
    /\ UNCHANGED <<env, fs, srv, bg, conv, cln, swp, mw>>

\* inbound requests of one process, the cleanup requests they send, arriving or
\* failing, the sweeps, and the clock
NextInbound ==
    \/ \E path \in InboundPaths : Inbound(path)
    \/ \E k \in Sweepers : CleanupArrive(k)
    \/ CleanupFetchFail
    \/ \E k \in Sweepers : SweepReaddir(k)
    \/ \E k \in Sweepers : \E child \in swp[k].left : SweepStat(k, child)
    \/ \E k \in Sweepers : SweepUnlink(k)
    \/ \E k \in Sweepers : SweepRm(k)
    \/ \E k \in Sweepers : SweepReturn(k)
    \/ TickInbound

SpecInbound == InitInbound /\ [][NextInbound]_vars

\* the texts of an optional field: absent, true and false in two spellings, another word
FieldInputs ==
    { NoField, Field(<<"t", "r", "u", "e">>), Field(<<"T", "R", "U", "E">>),
      Field(<<"f", "a", "l", "s", "e">>), Field(<<"F", "a", "l", "s", "e">>),
      Field(<<"n", "o">>) }

FormInputs ==
    [preserveLayout : FieldInputs, extractImages : FieldInputs, extractCharts : FieldInputs]

\* one conversion without images of a pdf or a text file sent with any form
NextOptions ==
    \/ \E file \in {f \in Uploads : f.present /\ f.size <= MAX_SIZE}, form \in FormInputs :
          ConvReceiveForm(1, file, form)
    \/ ConvMkdirs(1, <<"a">>)
    \/ ConvStage(1)
    \/ ConvConvertOk(1, 0, 1)
    \/ ConvConvertThrow(1, 0)

SpecOptions == Init /\ [][NextOptions]_vars

(***************************************************************************)
(* Claims about the serve-image handler (SpecServe).                       *)
(***************************************************************************)
\* at dir or below it
Within(p, dir) == StartsWith(p, dir)

\* the directory of the "different session structure" layouts: tempDir/<session>
SessionDir(e, session) == PathJoin(ServeTempDir(e), <<session>>)

HasTraversal(p) == Includes(p, <<".", ".", "/">>)

ErrorStatus == {400, 403, 404, 410, 500}

\* C1: a request whose path contains "../" never makes the handler read a file outside
\* tempDir/<session>-images, and whenever its answer is not an error the path it read
\* starts with that sandbox root.
C1_TraversalNeverEscapes ==
    (srv.pc # "idle" /\ HasTraversal(srv.path)) =>
        /\ srv.readPath # NoPath => Within(srv.readPath, SandboxRoot(env, srv.session))
        /\ srv.pc = "done" =>
              \/ srv.status \in ErrorStatus
              \/ Within(srv.readPath, SandboxRoot(env, srv.session))

\* a well-formed, unexpired session asked for a path with "../": the path check answered 403
C1_Witness ==
    /\ srv.pc = "done"
    /\ HasTraversal(srv.path)
    /\ SessionFormatOk(srv.session)
    /\ ~SessionExpired(srv.session, srv.at)
    /\ srv.status = 403
    /\ Exists(fs, PrimaryPath(env, srv.session, <<"a">>))

\* C2 as stated: every path the handler reads lies in tempDir/<session>-images, also
\* when it falls back to an alternate layout.
C2_ReadInsideSandboxRoot ==
    srv.readPath # NoPath => Within(srv.readPath, SandboxRoot(env, srv.session))

\* C2 amended: every path the handler reads lies in tempDir/<session>-images or in
\* tempDir/<session>, the directory of the second and third alternate layout.
C2_ReadInsideSessionDirs ==
    srv.readPath # NoPath =>
        \/ Within(srv.readPath, SandboxRoot(env, srv.session))
        \/ Within(srv.readPath, SessionDir(env, srv.session))

\* the handler served a file from an alternate layout
C2_Witness ==
    /\ srv.pc = "done"
    /\ srv.status = 200
    /\ srv.readPath = AlternativePaths(env, srv.session, srv.path)[3]

\* C3: with both parameters present and a well-formed session id t-r, the answer is 410
\* whenever now - t > maxAge, and is not 410 when now - t = maxAge - 1.
C3_ExpiryBoundary ==
    (srv.pc = "done" /\ srv.path # <<>> /\ SessionFormatOk(srv.session)) =>
        /\ srv.at - SessionTimestamp(srv.session) > maxAge => srv.status = 410
        /\ srv.at - SessionTimestamp(srv.session) = maxAge - 1 => srv.status # 410

\* a session one millisecond short of the retention window had its image served
C3_Witness ==
    /\ srv.pc = "done"
    /\ srv.at - SessionTimestamp(srv.session) = maxAge - 1
    /\ srv.status = 200

\* C4: the checks come in a fixed order: missing parameters 400; then a malformed session
\* 403 with no existence check and no read; then an expired session 410 with no read and
\* no bytes, whatever the path and whether or not the file exists; then the path 403;
\* then the lookup 404.
C4_CheckOrder ==
    srv.pc = "done" =>
        IF srv.path = <<>> \/ srv.session = <<>> THEN srv.status = 400
        ELSE IF ~SessionFormatOk(srv.session)
        THEN srv.status = 403 /\ srv.probed = <<>> /\ srv.readPath = NoPath
        ELSE IF srv.at - SessionTimestamp(srv.session) > maxAge
        THEN srv.status = 410 /\ srv.readPath = NoPath /\ srv.body = "none"
        ELSE IF Basename(srv.path) # srv.path \/ Includes(srv.path, DotDot)
        THEN srv.status = 403 /\ srv.readPath = NoPath
        ELSE srv.status \in {200, 404, 500}

\* an expired session asked for a path that is no base name while its image is on disk
C4_Witness ==
    /\ srv.pc = "done"
    /\ srv.status = 410
    /\ Basename(srv.path) # srv.path
    /\ Exists(fs, PrimaryPath(env, srv.session, <<"a">>))

\* the steps that answer a request with a validation or security error
RejectedConvert(r) == conv[r].pc = "idle" /\ conv'[r].pc = "done"

RejectedServe == srv.pc = "idle" /\ srv'.pc = "done" /\ srv'.status \in {400, 403, 410}

\* a step of a deletion that a 410 answer fired
ExpiredTaskStep == bg' # bg /\ srv' = srv

\* the session whose image directory a fired deletion names
TaskSession(task) ==
    LET name == task.dir[Len(task.dir)]
    IN  SubSeq(name, 1, Len(name) - Len(ImagesSuffix))

\* g is f with nothing added or rewritten, and nothing removed but entries at or below dir
OnlyRemovedBelow(f, g, dir) ==
    /\ DOMAIN g \subseteq DOMAIN f
    /\ \A q \in DOMAIN f \ DOMAIN g : Within(q, dir)
    /\ \A q \in DOMAIN g : g[q] = f[q] \/ (q = Parent(dir) /\ g[q].kind = f[q].kind)

\* C5 as stated: no step of a request rejected with 400, 413 (convert) or 400, 403, 410
\* (serve-image), the deletion a 410 answer fires included, changes the filesystem.
C5_RejectedLeaveFsUnchanged ==
    [][((\E r \in Reqs : RejectedConvert(r)) \/ RejectedServe \/ ExpiredTaskStep)
         => fs' = fs]_vars

\* C5 amended: a request rejected with 400, 403 or 413 changes nothing and fires
\* nothing; the handler answering 410 changes nothing itself, and the deletion it fires
\* creates and writes nothing and removes only the image directory
\* tempDir/<session>-images of that expired session with what lies below it.
C5_RejectedChangeOnlyExpiredDir ==
    [][/\ ((\E r \in Reqs : RejectedConvert(r)) \/ RejectedServe) => fs' = fs
       /\ (\E r \in Reqs : RejectedConvert(r)) => (bg' = bg /\ cln' = cln)
       /\ (RejectedServe /\ srv'.status # 410) => bg' = bg
       /\ ExpiredTaskStep =>
             \E task \in bg \ bg' :
                 /\ OnlyRemovedBelow(fs, fs', task.dir)
                 /\ task.dir = SandboxRoot(env, TaskSession(task))
                 /\ SessionFormatOk(TaskSession(task))
                 /\ SessionExpired(TaskSession(task), now)]_vars

\* a request for the session of a conversion still packaging was answered 410, and the
\* deletion it fired has removed the conversion's image directory
C5_Witness ==
    /\ srv.pc = "done"
    /\ srv.status = 410
    /\ srv.session = conv[1].fileId
    /\ bg = {}
    /\ conv[1].pc = "zip"
    /\ cln[1] = ClnIdle
    /\ ~Exists(fs, ImageDir(env, conv[1]))

\* the creation time a swept entry's name carries: the numeric prefix of the session id,
\* which follows "__" in a download's name and starts every other name
EntryCreatedAt(name) ==
    LET us == {i \in 1..(Len(name) - 1) : name[i] = "_" /\ name[i + 1] = "_"}
        start == IF us = {} THEN 1 ELSE 2 + (CHOOSE i \in us : \A j \in us : j <= i)
    IN  SessionTimestamp(SubSeq(name, start, Len(name)))

\* C6: whatever a sweep removes belongs to a session created more than CLEANUP_AGE_MS
\* before the removal; an entry whose session is at most one hour old is never removed.
C6_SweepSparesFreshSessions ==
    \A k \in Sweepers :
        swp[k].last.path # NoPath =>
            /\ Parent(swp[k].last.path) \in {CwdDownloads, CwdTemp}
            /\ swp[k].last.at - EntryCreatedAt(swp[k].last.path[Len(swp[k].last.path)])
                   > CLEANUP_AGE_MS

\* a sweep has removed an entry of a finished conversion's session
C6_Witness ==
    \E k \in Sweepers :
        /\ swp[k].last.path # NoPath
        /\ conv[1].pc = "done"
        /\ Includes(swp[k].last.path[Len(swp[k].last.path)], conv[1].fileId)

\* the file a successful conversion offers for download: the archive when there are
\* images, the markdown otherwise
OutputPath(e, c) == IF Len(c.images) > 0 THEN ZipPath(e, c) ELSE MdPath(e, c)

\* C7: when a conversion has answered 200, either the response carries a data URL and
\* the output file is not on disk, or it carries a relative URL and the output file is
\* on disk.
C7_ExactlyOneDeliverable ==
    \A r \in Reqs :
        (conv[r].pc = "done" /\ conv[r].status = 200) =>
            \/ conv[r].url = "data" /\ ~Exists(fs, OutputPath(env, conv[r]))
            \/ conv[r].url = "relative" /\ Exists(fs, OutputPath(env, conv[r]))

\* an inline conversion with images has answered: its archive was written and removed
C7_Witness ==
    /\ conv[1].pc = "done"
    /\ conv[1].status = 200
    /\ conv[1].url = "data"
    /\ conv[1].zip = "closed"
    /\ ~Exists(fs, ZipPath(env, conv[1]))

CleanupStarted(r) == cln[r].fg # "none" \/ cln[r].bg # "none"

\* C8 as stated: once a request has opened its archive, a cleanup of it has started only
\* if the output stream has closed.
C8_CleanupOnlyAfterClose ==
    \A r \in Reqs : (conv[r].zip # "none" /\ CleanupStarted(r)) => conv[r].zip = "closed"

\* C8 amended: while the archive is streaming no cleanup of the request has started and
\* every image it streams from is on disk; a cleanup starts only once the output stream
\* has closed or the archive has reported an error.
C8_NoCleanupWhileStreaming ==
    \A r \in Reqs :
        /\ conv[r].zip = "streaming" =>
              /\ ~CleanupStarted(r)
              /\ Exists(fs, TempFilePath(env, conv[r]))
              /\ \A i \in 1..Len(conv[r].images) : Exists(fs, conv[r].images[i])
        /\ (conv[r].zip # "none" /\ CleanupStarted(r)) => conv[r].zip \in {"closed", "error"}
        /\ conv[r].zip = "closed" => conv[r].entries = 1..Len(conv[r].images)

\* the output stream has closed with every image in the archive, and the cleanup its
\* handler fired is removing the staged input
C8_Witness ==
    /\ conv[1].zip = "closed"
    /\ conv[1].entries = 1..MaxImages
    /\ cln[1].bg = "unlink"
    /\ Exists(fs, TempFilePath(env, conv[1]))

\* what a request puts on disk under its session id
Artifacts(e, c) ==
    {TempFilePath(e, c), ImageDir(e, c), ZipPath(e, c), MdPath(e, c),
     Parent(PublicImagesDir(e, c))}

\* C9: when a conversion has answered 500, no cleanup of it is still running and nothing
\* it staged is on disk: staged input, image directory, archive, image mirror.
C9_FailureLeavesNothing ==
    \A r \in Reqs :
        (conv[r].pc = "done" /\ conv[r].status = 500) =>
            /\ cln[r].fg \in {"none", "done"}
            /\ cln[r].bg \in {"none", "done"}
            /\ \A p \in Artifacts(env, conv[r]) : ~Exists(fs, p)

\* C10: when a request that staged its upload has answered, 200 with images, 200 without,
\* or 500, and the cleanups it started have returned, the staged input is not on disk.
C10_StagedInputRemoved ==
    \A r \in Reqs :
        (/\ conv[r].pc = "done"
         /\ conv[r].status \in {200, 500}
         /\ cln[r].fg \in {"none", "done"}
         /\ cln[r].bg \in {"none", "done"}) =>
            /\ CleanupStarted(r)
            /\ ~Exists(fs, TempFilePath(env, conv[r]))

\* a conversion with images has answered 200 from disk and the cleanup fired by the
\* close handler has returned
C10_Witness ==
    /\ conv[1].pc = "done"
    /\ conv[1].status = 200
    /\ conv[1].url = "relative"
    /\ Len(conv[1].images) > 0
    /\ cln[1].bg = "done"
    /\ Exists(fs, ZipPath(env, conv[1]))

\* the immediate children of the swept directories
TopChildren(f) == {q \in DOMAIN f : Len(q) > 1 /\ Parent(q) \in {CwdDownloads, CwdTemp}}

\* C11: a sweep running alone removes an immediate child only if its modification age
\* is strictly greater than the retention window, counts one per removal and nothing
\* else, and when no removal failed it leaves no such child behind.
C11_SweepRemovesExactlyOld ==
    /\ [](\A k \in Sweepers :
            (swp[k].pc = "done" /\ swp[k].failed = {}) =>
                \A q \in TopChildren(fs) : ~(now - fs[q].mtime > CLEANUP_AGE_MS))
    /\ [][\A k \in Sweepers :
            /\ fs' # fs =>
                  \E q \in TopChildren(fs) :
                      /\ now - fs[q].mtime > CLEANUP_AGE_MS
                      /\ OnlyRemovedBelow(fs, fs', q)
                      /\ DOMAIN fs' = DOMAIN fs \ Tree(fs, q)
                      /\ swp'[k].cleaned = swp[k].cleaned + 1
            /\ (fs' = fs /\ swp[k].pc \notin {"idle", "done"}) =>
                  swp'[k].cleaned = swp[k].cleaned]_vars

\* the sweep of a directory holding a file a second short of the retention window and a
\* file a second past it has removed the second and reports 1
C11_Witness ==
    /\ swp[1].pc = "done"
    /\ swp[1].cleaned = 1
    /\ swp[1].failed = {}
    /\ Exists(fs, PathJoin(CwdDownloads, <<<<"p">>>>))
    /\ swp[1].last.path = PathJoin(CwdDownloads, <<<<"q">>>>)

\* C12: when the removal of a child fails, the child is not counted and nothing changes
\* on disk, and the sweep still reaches every sibling: at its end every child older than
\* the retention window that is still there is one whose removal failed.
C12_FailedRemovalSparesSiblings ==
    /\ [](\A k \in Sweepers :
            swp[k].pc = "done" =>
                \A q \in TopChildren(fs) :
                    now - fs[q].mtime > CLEANUP_AGE_MS => q \in swp[k].failed)
    /\ [][\A k \in Sweepers :
            swp'[k].failed # swp[k].failed =>
                (swp'[k].pc = "idle" \/ (swp'[k].cleaned = swp[k].cleaned /\ fs' = fs))]_vars

\* the removal of the old file failed, the old directory beside it was removed and counted
C12_Witness ==
    /\ swp[1].pc = "done"
    /\ swp[1].failed = {PathJoin(CwdDownloads, <<<<"q">>>>)}
    /\ Exists(fs, PathJoin(CwdDownloads, <<<<"q">>>>))
    /\ swp[1].last.path = PathJoin(CwdDownloads, <<<<"s">>>>)
    /\ swp[1].cleaned = 1

\* C13: any two instants at which the middleware of one process triggered a cleanup are
\* more than CLEANUP_INTERVAL (30 minutes) apart, and the last of them is lastCleanup.
C13_TriggersHalfHourApart ==
    /\ \A i, j \in 1..Len(mw.triggers) :
          i < j => mw.triggers[j] - mw.triggers[i] > CLEANUP_INTERVAL
    /\ Len(mw.triggers) > 0 => mw.lastCleanup = mw.triggers[Len(mw.triggers)]
    /\ mw.pending <= Len(mw.triggers)

\* a second cleanup was triggered, a millisecond after the interval had passed
C13_Witness ==
    /\ Len(mw.triggers) >= 2
    /\ mw.triggers[2] - mw.triggers[1] = CLEANUP_INTERVAL + 1

\* the entries request c creates under the temporary and the output directory
ConvEntries(e, c) == {TempFilePath(e, c), ImageDir(e, c), ZipPath(e, c), MdPath(e, c)}

\* an entry of request r is on disk and older than the retention window
HasStaleEntry(r) ==
    /\ conv[r].pc = "done" /\ conv[r].fileId # <<>>
    /\ \E q \in ConvEntries(env, conv[r]) :
          Exists(fs, q) /\ now - fs[q].mtime > CLEANUP_AGE_MS

\* C14: whenever an entry a conversion created under its temporary or output directory
\* is older than the retention window and a request has triggered a cleanup, the entry
\* is eventually removed, in every environment configuration.
C14_StaleEntriesSwept ==
    (HasStaleEntry(1) /\ mw.pending > 0) ~> ~HasStaleEntry(1)

\* the same where the directories of the conversion are those the sweep visits
C14_StaleEntriesSweptUnderCwd ==
    (HasStaleEntry(1) /\ mw.pending > 0 /\ ~(env.inline /\ env.vercel)) ~> ~HasStaleEntry(1)

\* request r has minted its session id
Minted(r) == conv[r].fileId # <<>>

\* C15: the session ids of two different requests are different.
C15_IdsNeverReissued ==
    \A r1, r2 \in Reqs : (r1 # r2 /\ Minted(r1) /\ Minted(r2)) => conv[r1].fileId # conv[r2].fileId

\* the random part of a session id: what follows the first dash
IdSuffix(id) == SubSeq(id, IndexOf(id, "-") + 1, Len(id))

\* C16: every minted session id passes the format check of the serve handler, and its
\* random suffix has at least 6 characters.
C16_MintedIdsWellFormed ==
    \A r \in Reqs : Minted(r) => SessionFormatOk(conv[r].fileId) /\ Len(IdSuffix(conv[r].fileId)) >= 6

\* the paths request c writes or deletes: staged input and image directory, and once
\* the converter has returned, the image mirror and the archive, or the markdown file
RequestPaths(e, c) ==
    {TempFilePath(e, c), ImageDir(e, c)}
        \cup (IF Len(c.images) > 0 THEN {Parent(PublicImagesDir(e, c)), ZipPath(e, c)} ELSE {})
        \cup (IF c.pc = "writemd" \/ c.url = "relative" THEN {MdPath(e, c)} ELSE {})

\* C17: two conversions with different session ids write and delete different paths,
\* whatever they upload and however they interleave.
C17_PathsPairwiseDistinct ==
    \A r1, r2 \in Reqs :
        (r1 # r2 /\ Minted(r1) /\ Minted(r2) /\ conv[r1].fileId # conv[r2].fileId) =>
            RequestPaths(env, conv[r1]) \cap RequestPaths(env, conv[r2]) = {}

\* the same for two conversions of the same upload, and for any two where the temporary
\* and the output directory differ
C17_DistinctForSameUpload ==
    \A r1, r2 \in Reqs :
        (r1 # r2 /\ Minted(r1) /\ Minted(r2) /\ conv[r1].fileId # conv[r2].fileId
            /\ (conv[r1].file = conv[r2].file \/ ConvTempDir(env) # ConvOutputDir(env))) =>
            RequestPaths(env, conv[r1]) \cap RequestPaths(env, conv[r2]) = {}

\* cleanupTempFiles called on the paths of request r in the current state, and called
\* again on what the first call left
FirstCleanup(r) ==
    CleanupTempFiles(fs, TempFilePath(env, conv[r]), ImageDir(env, conv[r]), now)
SecondCleanup(r) ==
    CleanupTempFiles(FirstCleanup(r).fs, TempFilePath(env, conv[r]), ImageDir(env, conv[r]), now)

\* C18: in every state a request can be in once its paths are fixed (staged input and
\* image directory not yet created, on disk, or already deleted), calling cleanup raises
\* nothing, calling it a second time raises nothing and changes nothing, and when neither
\* path is on disk the call changes nothing and nothing is thrown inside it.
C18_CleanupIdempotent ==
    \A r \in Reqs : Minted(r) =>
        /\ ~FirstCleanup(r).raised
        /\ ~SecondCleanup(r).raised
        /\ SecondCleanup(r).fs = FirstCleanup(r).fs
        /\ (~Exists(fs, TempFilePath(env, conv[r])) /\ ~Exists(fs, ImageDir(env, conv[r]))) =>
              (FirstCleanup(r).fs = fs /\ ~FirstCleanup(r).caught)

\* the staged input and the image directory are on disk and a cleanup removes both
C18_Witness ==
    /\ Minted(1)
    /\ Exists(fs, TempFilePath(env, conv[1])) /\ Exists(fs, ImageDir(env, conv[1]))
    /\ ~Exists(FirstCleanup(1).fs, TempFilePath(env, conv[1]))
    /\ ~Exists(FirstCleanup(1).fs, ImageDir(env, conv[1]))

\* C19: when the deletion of the staged input fails during a cleanup call while the
\* image directory is on disk, that call goes on to delete the image directory.
C19_FailedUnlinkStillTriesRm ==
    [][\A r \in Reqs : \A slot \in {"fg", "bg"} :
          (/\ cln[r][slot] = "unlink"
           /\ cln'[r][slot] # "unlink"
           /\ fs' = fs
           /\ Exists(fs, ImageDir(env, conv[r]))) => cln'[r][slot] = "rm"]_vars

\* where image i of request c is mirrored
MirrorPath(e, c, i) ==
    PathJoin(PublicImagesDir(e, c), <<Basename(c.images[i][Len(c.images[i])])>>)

\* the copy loop of request r has just ended: the archive is about to be created
CopiesDone(r) == conv[r].pc = "zipstart"

\* C20: when the copy loop has ended, every image whose copy did not fail is in the
\* mirror, whatever copies failed before or after it; and a request in which a copy
\* failed answers 200 unless the archive itself failed.
C20_FailedCopySkipped ==
    \A r \in Reqs :
        /\ CopiesDone(r) =>
              \A i \in (1..Len(conv[r].images)) \ conv[r].skipped :
                  Exists(fs, MirrorPath(env, conv[r], i))
        /\ (conv[r].pc = "done" /\ conv[r].skipped # {}) =>
              (conv[r].status = 200 \/ conv[r].zip = "error")

\* the copy of the first image failed, the second image is in the mirror all the same,
\* and the request has answered 200
C20_Witness ==
    /\ conv[1].pc = "done" /\ conv[1].status = 200
    /\ conv[1].skipped = {1}
    /\ Len(conv[1].images) = 2
    /\ Exists(fs, MirrorPath(env, conv[1], 2))
    /\ ~Exists(fs, MirrorPath(env, conv[1], 1))

\* the archive packager of request r has been started
Packaging(r) == conv[r].pc \notin {"idle", "mkdir", "stage", "convert", "mirror", "copy"}

\* C21: from the moment the archive packager is started, no copy of an image into the
\* mirror is in flight: each has completed or has failed and been skipped.
C21_NoCopyInFlightWhenPackaging ==
    \A r \in Reqs : Packaging(r) =>
        /\ conv[r].inflight = {}
        /\ conv[r].pc = "zipstart" =>
              \A i \in 1..Len(conv[r].images) :
                  i \in conv[r].skipped \/ Exists(fs, MirrorPath(env, conv[r], i))

\* the packager is streaming two images, of which one copy completed and one failed
C21_Witness ==
    /\ conv[1].pc = "zip" /\ conv[1].zip = "streaming"
    /\ Len(conv[1].images) = 2
    /\ conv[1].skipped = {2}
    /\ conv[1].inflight = {}

\* an error body as the claim describes it: JSON with a non-empty error string
StructuredError(b) == b.json /\ b.error # ""

\* C22: every error answer of the convert and of the serve endpoint carries a JSON body
\* with a non-empty error string.
C22_ErrorsAreStructuredJson ==
    /\ \A r \in Reqs :
          (conv[r].pc = "done" /\ conv[r].status >= 400) => StructuredError(conv[r].err)
    /\ (srv.pc = "done" /\ srv.status >= 400) => StructuredError(srv.err)

\* the same for the convert endpoint alone
C22_ConvertErrorsAreStructuredJson ==
    \A r \in Reqs :
        (conv[r].pc = "done" /\ conv[r].status >= 400) => StructuredError(conv[r].err)

\* request r has received an upload
Received(r) == conv[r].pc # "idle" /\ conv[r].file.present

\* the validation of request r has let the upload through
Accepted(r) == Received(r) /\ ~(conv[r].pc = "done" /\ conv[r].status \in {400, 413})

\* the converter has been invoked for request r
ConverterInvoked(r) == conv[r].converted

\* the MIME types and the extensions of pdf, docx, xlsx, pptx, hwp and hwpx
SixTypes ==
    {"application/pdf",
     "application/vnd.openxmlformats-officedocument.wordprocessingml.document",
     "application/vnd.openxmlformats-officedocument.spreadsheetml.sheet",
     "application/vnd.openxmlformats-officedocument.presentationml.presentation",
     "application/x-hwp", "application/x-hwpx"}
SixExts ==
    { <<".", "p", "d", "f">>, <<".", "d", "o", "c", "x">>, <<".", "x", "l", "s", "x">>,
      <<".", "p", "p", "t", "x">>, <<".", "h", "w", "p">>, <<".", "h", "w", "p", "x">> }

\* the part of the name from its last dot on, in lower case
LowerExt(name) ==
    LET k == LastIndexOf(name, ".")
    IN  IF k = 0 THEN <<>> ELSE ToLowerCase(SubSeq(name, k, Len(name)))

DenotesSix(file) == file.type \in SixTypes \/ LowerExt(file.name) \in SixExts

\* C23: an upload is let through only if its MIME type or its extension denotes one of
\* the six formats; every other upload is answered 400 and the converter is not invoked.
C23_OnlySixFormatsAccepted ==
    \A r \in Reqs : Received(r) =>
        /\ Accepted(r) => DenotesSix(conv[r].file)
        /\ ~DenotesSix(conv[r].file) =>
              (conv[r].pc = "done" /\ conv[r].status = 400 /\ ~ConverterInvoked(r))

\* C23 (amended): an upload of at most 50 MB is let through exactly when its MIME type
\* is one of the six formats' types, application/x-cfb or application/zip, or its
\* extension, compared without case, is one of the six; every other upload is answered
\* 400, or 413 when it exceeds 50 MB, and the converter is not invoked for it.
C23_AllowedTypesOrSixExtensions ==
    \A r \in Reqs : Received(r) =>
        LET f == conv[r].file
            allowed == f.type \in SixTypes \cup {"application/x-cfb", "application/zip"}
                          \/ LowerExt(f.name) \in SixExts
        IN  /\ Accepted(r) <=> (allowed /\ f.size <= MAX_SIZE)
            /\ ~Accepted(r) =>
                  /\ conv[r].status = (IF f.size > MAX_SIZE THEN 413 ELSE 400)
                  /\ ~ConverterInvoked(r)

\* an archive that is none of the six formats was let through and converted; and a pdf
\* named in upper case without a MIME type is let through as well
C23_Witness ==
    /\ conv[1].file.type = "application/zip"
    /\ ~DenotesSix(conv[1].file)
    /\ ConverterInvoked(1)
    /\ conv[1].pc = "done" /\ conv[1].status = 200

\* C24: an upload of more than 50 MB is answered 413, whatever its type, by a step that
\* leaves the filesystem as it was; an upload of exactly 50 MB is never answered 413.
C24_OversizedRejectedFirst ==
    /\ [](\A r \in Reqs : Received(r) =>
            /\ conv[r].file.size > MAX_SIZE =>
                  (conv[r].pc = "done" /\ conv[r].status = 413 /\ fs = BaseFs)
            /\ conv[r].file.size = MAX_SIZE => conv[r].status # 413)
    /\ [][\A r \in Reqs :
            (conv[r].pc = "idle" /\ conv'[r].file.present /\ conv'[r].file.size > MAX_SIZE)
                => fs' = fs]_vars

\* a text file of 50 MB and one byte was answered 413 and nothing is on disk
C24_Witness ==
    /\ conv[1].pc = "done" /\ conv[1].status = 413
    /\ conv[1].file.size = MAX_SIZE + 1
    /\ conv[1].file.type = "text/plain"
    /\ fs = BaseFs

\* C25: in the answer to a successful conversion hasImages tells whether the converter
\* returned an image, imageCount and stats.imageCount are the number it returned, and
\* downloadUrl points to an archive that was produced exactly when there is an image,
\* to the markdown otherwise.
C25_ResponseCountsImages ==
    \A r \in Reqs : (conv[r].pc = "done" /\ conv[r].status = 200) =>
        /\ conv[r].resp.hasImages <=> Len(conv[r].images) > 0
        /\ conv[r].resp.imageCount = Len(conv[r].images)
        /\ conv[r].resp.statsImageCount = Len(conv[r].images)
        /\ conv[r].zip = "closed" <=> Len(conv[r].images) > 0
        /\ conv[r].resp.payload = (IF Len(conv[r].images) > 0 THEN "zip" ELSE "md")
        /\ (Len(conv[r].images) = 0 /\ conv[r].url = "relative") =>
              (Exists(fs, MdPath(env, conv[r])) /\ ~Exists(fs, ZipPath(env, conv[r])))

\* the converter returned two images of which one did not reach the mirror: the answer
\* counts two
C25_Witness ==
    /\ conv[1].pc = "done" /\ conv[1].status = 200
    /\ Len(conv[1].images) = 2 /\ conv[1].skipped # {}
    /\ conv[1].resp.hasImages /\ conv[1].resp.imageCount = 2
    /\ conv[1].resp.payload = "zip"

\* route.ts:291  the name of the markdown entry
MdEntryName(c) == OriginalName(c.name) \o <<".", "m", "d">>

\* route.ts:324-325  the name of the entry of image i: images/<basename of its saved path>
ImageEntryName(c, i) ==
    <<"i", "m", "a", "g", "e", "s", "/">> \o Basename(c.images[i][Len(c.images[i])])

\* the names under which unpacking the archive of request c gives files back
UnpackedNames(c) == {MdEntryName(c)} \cup {ImageEntryName(c, i) : i \in c.entries}

\* C26: a closed archive of a markdown document and N images holds an entry for every
\* image, and unpacking it gives N+1 files: <originalName>.md and images/<name> for each
\* image.
C26_ArchiveHasAllEntries ==
    \A r \in Reqs : conv[r].zip = "closed" =>
        /\ conv[r].entries = 1..Len(conv[r].images)
        /\ Cardinality(UnpackedNames(conv[r])) = Len(conv[r].images) + 1

\* the same when the images' saved paths have different base names
C26_AllEntriesWhenNamesDiffer ==
    \A r \in Reqs :
        (/\ conv[r].zip = "closed"
         /\ \A i, j \in 1..Len(conv[r].images) :
               i # j => ImageEntryName(conv[r], i) # ImageEntryName(conv[r], j)) =>
            /\ conv[r].entries = 1..Len(conv[r].images)
            /\ Cardinality(UnpackedNames(conv[r])) = Len(conv[r].images) + 1

\* the environment signals a serverless context or the public directory is absent
SignalsServerless == env.vercel \/ ~Exists(fs, SubSeq(CwdDownloads, 1, 2))

\* the mode of request r has been decided
ModeChosen(r) == conv[r].pc \notin {"idle", "mkdir"} /\ conv[r].fileId # <<>>

\* C27: in the revision with the inline mode, a request whose mode is decided where the
\* environment signals a serverless context (or the public directory is absent) uses
\* inline mode; the mode is decided before the upload is staged and never changes, and a
\* successful answer, with images or without, carries a data URL exactly in inline mode.
C27_InlineModeChosenOnce ==
    /\ [](\A r \in Reqs :
            /\ (ModeChosen(r) /\ env.inline /\ SignalsServerless) => conv[r].base64
            /\ conv[r].status = 200 => (conv[r].base64 <=> conv[r].url = "data"))
    /\ [][\A r \in Reqs :
            /\ ModeChosen(r) => conv'[r].base64 = conv[r].base64
            /\ (conv[r].pc = "mkdir" /\ conv'[r].pc # "mkdir") =>
                   /\ conv'[r].pc = "stage"
                   /\ ~Exists(fs', TempFilePath(env, conv'[r]))]_vars

\* a serverless request with images is answered with a data URL
C27_Witness ==
    /\ env.inline /\ env.vercel
    /\ conv[1].status = 200 /\ conv[1].base64 /\ conv[1].url = "data"
    /\ Len(conv[1].images) > 0

\* the staging of request r's upload has failed: the request has its session id and is
\* over without the converter having been invoked
StagingFailed(r) ==
    /\ conv[r].fileId # <<>>
    /\ conv[r].pc = "done"
    /\ ~conv[r].converted

\* C28: a request whose staging fails is answered 500 by that very step; the converter
\* is never invoked for it, no image is copied, no archive is begun, and it takes no
\* further step.
C28_FailedStagingIsFatal ==
    /\ [](\A r \in Reqs : StagingFailed(r) =>
            /\ conv[r].status = 500
            /\ conv[r].images = <<>> /\ conv[r].zip = "none" /\ conv[r].entries = {}
            /\ ~Exists(fs, PublicImagesDir(env, conv[r]))
            /\ ~Exists(fs, ZipPath(env, conv[r])))
    /\ [][\A r \in Reqs :
            /\ (conv[r].pc = "stage" /\ conv'[r].pc # "stage"
                  /\ ~Exists(fs', TempFilePath(env, conv[r]))) => StagingFailed(r)'
            /\ StagingFailed(r) => conv'[r] = conv[r]]_vars

\* a request whose staging failed has been answered 500
C28_Witness ==
    /\ StagingFailed(1)
    /\ conv[1].status = 500
    /\ conv[1].err = JsonError("Server error: ")

\* the conversion of request r has succeeded with images and a cleanup of it has run
ConvertedAndCleaned(r) ==
    /\ conv[r].status = 200
    /\ Len(conv[r].images) > 0
    /\ cln[r].fg = "done" \/ cln[r].bg = "done"

\* a GET arrives in this step, for image i of request r, inside the retention window
AsksForImage(r, i) ==
    /\ srv.pc = "idle" /\ srv'.pc # "idle"
    /\ i <= Len(conv[r].images)
    /\ srv'.session = conv[r].fileId
    /\ srv'.path = Basename(conv[r].images[i][Len(conv[r].images[i])])
    /\ ~SessionExpired(conv[r].fileId, now)

\* C29: a GET for an image of a conversion that has succeeded and been cleaned up, made
\* inside the retention window, finds the image and answers 200 with its bytes.
C29_ImageServedAfterCleanup ==
    [][\A r \in Reqs, i \in 1..MaxImages :
          (ConvertedAndCleaned(r) /\ AsksForImage(r, i)) =>
              /\ srv'.pc = "reading"
              /\ srv'.readPath = conv[r].images[i]]_vars

\* the same GET made once the images are saved and before any cleanup of the request
\* has started, where the two routes agree on the temporary directory
C29_ImageServedBeforeCleanup ==
    [][\A r \in Reqs, i \in 1..MaxImages :
          (/\ AsksForImage(r, i)
           /\ ~CleanupStarted(r)
           /\ ConvTempDir(env) = ServeTempDir(env)) =>
              /\ srv'.pc = "reading"
              /\ srv'.readPath = conv[r].images[i]]_vars

\* the request the image route has answered had a well-formed, unexpired session and a
\* valid base name
ServedWellFormed ==
    /\ srv.pc = "done"
    /\ srv.session # <<>> /\ srv.path # <<>>
    /\ SessionFormatOk(srv.session)
    /\ ~SessionExpired(srv.session, srv.at)
    /\ ~PathRejected(srv.path)

\* C30: a request with a well-formed, unexpired session and a valid base name is answered
\* 200 with the file's bytes or 404, whatever a concurrent cleanup or sweep deletes
\* between the existence check and the read.
C30_Answers200Or404 ==
    ServedWellFormed =>
        \/ srv.status = 404
        \/ srv.status = 200 /\ srv.body # "none"

\* the same with the 500 of the catch block among the answers
C30_Answers200Or404Or500 ==
    ServedWellFormed =>
        \/ srv.status \in {404, 500}
        \/ srv.status = 200 /\ srv.body # "none"

\* C31: the count of a sweep is the number of entries the sweep itself removed, also
\* while a request's cleanup removes entries of the same directory.
C31_CountIsOwnRemovals ==
    \A k \in Sweepers : swp[k].cleaned = Cardinality(swp[k].removed)

\* every entry a sweep removed is in its count
C31_OwnRemovalsCounted ==
    \A k \in Sweepers : swp[k].cleaned >= Cardinality(swp[k].removed)

\* the deletion fired for session s, at its first step
FiredTask(s) == [dir |-> SandboxRoot(env, s), pc |-> "check"]

\* C32: the handler answers 410 in the step that fires the deletion, with nothing
\* deleted yet; no step of a deletion, failed or not, changes the response; and a fired
\* deletion leads to the session's image directory being gone, unless its rm failed.
C32_ExpiredAnsweredThenDeleted ==
    /\ [][/\ (srv.pc = "idle" /\ srv'.status = 410) =>
                /\ srv'.pc = "done"
                /\ srv'.err = TextBody("Session expired")
                /\ fs' = fs
                /\ FiredTask(srv'.session) \in bg'
          /\ (srv.status = 410 /\ (\E task \in bg : task \notin bg')) => srv' = srv]_vars
    /\ \A s \in SessionInputs :
          (FiredTask(s) \in bg) ~>
              \/ ~Exists(fs, SandboxRoot(env, s))
              \/ [dir |-> SandboxRoot(env, s), pc |-> "failed"] \in bg

\* the 410 is out while the deletion it fired has found the directory and not yet
\* removed it
C32_Witness ==
    /\ srv.pc = "done" /\ srv.status = 410
    /\ [dir |-> SandboxRoot(env, srv.session), pc |-> "rm"] \in bg
    /\ Exists(fs, SandboxRoot(env, srv.session))

\* a sweep starts in this step: the cleanup request has arrived
SweepBegins == \E k \in Sweepers : swp[k].pc = "idle" /\ swp'[k].pc # "idle"

\* a cleanup is triggered in this step
Triggered == Len(mw'.triggers) > Len(mw.triggers)

\* C33: the arrival of the cleanup request is an inbound request for the cleanup path on
\* which the middleware does not run and which triggers nothing, also when a cleanup is
\* due at that instant; a request that triggers a cleanup is on a matched path and is
\* passed on in the step that sends the cleanup request, before any sweep has begun; and
\* no later step of the sweep and no failure of the cleanup request changes that.
C33_CleanupNotRecursive ==
    /\ [](mw.req # NoReq => mw.req.next)
    /\ [][/\ SweepBegins =>
                /\ mw'.req.path = CleanupPath /\ ~mw'.req.ran
                /\ ~Triggered /\ mw'.lastCleanup = mw.lastCleanup
          /\ Triggered =>
                /\ Matcher(mw'.req.path) /\ mw'.req.ran /\ mw'.req.next
                /\ ~StartsWith(mw'.req.path, CleanupPath)
                /\ swp' = swp /\ fs' = fs
          /\ ((swp' # swp /\ ~SweepBegins) \/ mw'.failed # mw.failed) =>
                mw'.req = mw.req]_vars

\* the cleanup request has arrived at an instant at which a cleanup is due, and the
\* request that triggered it had been passed on
C33_Witness ==
    /\ mw.req = [path |-> CleanupPath, ran |-> FALSE, next |-> TRUE]
    /\ swp[1].pc # "idle"
    /\ CleanupDue(now, mw.lastCleanup)
    /\ Len(mw.triggers) = 1

\* C37: lastCleanup is set to the current instant in the step that sends the cleanup
\* request, before the request has arrived or failed; the failure of the request leaves
\* lastCleanup as it is, and every trigger later than a failed one comes more than
\* CLEANUP_INTERVAL after it.
C37_FailedAttemptHoldsInterval ==
    /\ [](\A f \in mw.failed : \A i \in 1..Len(mw.triggers) :
            mw.triggers[i] > f => mw.triggers[i] - f > CLEANUP_INTERVAL)
    /\ [][/\ Triggered =>
                /\ mw'.lastCleanup = now /\ mw'.pending = mw.pending + 1
                /\ mw'.failed = mw.failed /\ swp' = swp
          /\ mw'.failed # mw.failed =>
                /\ mw'.lastCleanup = mw.lastCleanup
                /\ mw'.triggers = mw.triggers]_vars

\* a cleanup request failed, and the next cleanup was triggered a millisecond more than
\* the interval after the failed attempt
C37_Witness ==
    /\ Len(mw.triggers) = 2
    /\ mw.triggers[1] \in mw.failed
    /\ mw.triggers[2] - mw.triggers[1] = CLEANUP_INTERVAL + 1

\* C34: the archive's error starts two cleanups of the request on the same staged input
\* and image directory; the awaited one returns to the catch block, which answers 500,
\* and once both calls are over neither path is on disk.
C34_ConcurrentCleanupsRemoveBoth ==
    /\ [](\A r \in Reqs :
            /\ (conv[r].zip = "error" /\ cln[r].fg = "done" /\ cln[r].bg = "done") =>
                  /\ ~Exists(fs, TempFilePath(env, conv[r]))
                  /\ ~Exists(fs, ImageDir(env, conv[r]))
            /\ (conv[r].zip = "error" /\ conv[r].pc = "done") =>
                  /\ conv[r].status = 500
                  /\ conv[r].err = JsonError("Conversion failed: "))
    /\ [][\A r \in Reqs :
            (conv[r].zip # "error" /\ conv'[r].zip = "error") =>
                /\ cln'[r].fg = cln'[r].bg
                /\ cln'[r].fg = CleanupStart(fs, TempFilePath(env, conv[r]), ImageDir(env, conv[r]))
                /\ fs' = fs]_vars

\* both calls had issued their unlink; the awaited call's unlink found the staged input
\* gone and the call has ended, while the other call has still to remove the image
\* directory
C34_Witness ==
    /\ conv[1].zip = "error"
    /\ cln[1].fg = "done" /\ cln[1].bg = "rm"
    /\ ~Exists(fs, TempFilePath(env, conv[1]))
    /\ Exists(fs, ImageDir(env, conv[1]))

\* C35: once a request has its session id, the path of its staged input differs from
\* the path of its image directory.
C35_StagedInputIsNotImageDir ==
    \A r \in Reqs : Minted(r) => TempFilePath(env, conv[r]) # ImageDir(env, conv[r])

\* the same for every upload whose sanitized name is not "images"
C35_DistinctUnlessNamedImages ==
    \A r \in Reqs :
        (Minted(r) /\ conv[r].name # <<"i", "m", "a", "g", "e", "s">>) =>
            TempFilePath(env, conv[r]) # ImageDir(env, conv[r])

\* the stat of a child throws in this step of sweep k
StatThrows(k) == swp[k].pc = "stat" /\ swp'[k].unread # swp[k].unread

\* C36: when the stat of a child throws, the sweep visits no further child of that
\* directory, keeps the count it has, removes nothing in that step, and goes on to the
\* next directory that exists, or to its response when there is none.
C36_FailedStatEndsDirectory ==
    [][\A k \in Sweepers : StatThrows(k) =>
          /\ swp'[k].left = {}
          /\ swp'[k].cleaned = swp[k].cleaned
          /\ fs' = fs
          /\ swp'[k].dirs = SweepDirs(fs, Tail(swp[k].dirs))
          /\ swp'[k].pc = IF swp'[k].dirs = <<>> THEN "done" ELSE "readdir"]_vars

\* the stat of a child of the downloads directory threw while another child was still to
\* visit, and the sweep has gone on to the temp directory
C36_Witness ==
    /\ swp[1].unread # {}
    /\ swp[1].pc = "readdir"
    /\ swp[1].dirs = <<CwdTemp>>
    /\ \E q \in DOMAIN fs : Len(q) > 1 /\ Parent(q) = CwdDownloads

\* C38: a request with a well-formed session id made before the id's timestamp plus the
\* retention window - the timestamp may lie in the future - is not answered 410 and
\* fires no deletion of the session's directory.
C38_FutureSessionNotExpired ==
    (/\ srv.pc # "idle"
     /\ srv.session # <<>> /\ srv.path # <<>>
     /\ SessionFormatOk(srv.session)
     /\ srv.at < SessionTimestamp(srv.session) + maxAge) =>
        /\ srv.status # 410
        /\ \A task \in bg : task.dir # SandboxRoot(env, srv.session)

\* a request for a session whose timestamp lies one retention window in the future has
\* passed the expiry check and was answered 404
C38_Witness ==
    /\ srv.pc = "done"
    /\ srv.session = MkId(ServeNow + maxAge, <<"a">>)
    /\ SessionTimestamp(srv.session) > srv.at
    /\ srv.status = 404

\* the options the converter was called with for request r
Options(r) == ConvertOptions(conv[r].form)

\* C39: the converter is called with preserveLayout true exactly when the form field is
\* 'true', and with extractImages / extractCharts false exactly when their field is
\* 'false' in any case.
C39_OptionsFollowFlags ==
    \A r \in Reqs : conv[r].converted =>
        /\ Options(r).preserveLayout <=> IsTrueField(conv[r].form.preserveLayout)
        /\ ~Options(r).extractImages <=>
              (conv[r].form.extractImages.present
                 /\ ToLowerCase(conv[r].form.extractImages.value) = <<"f", "a", "l", "s", "e">>)
        /\ ~Options(r).extractCharts <=>
              (conv[r].form.extractCharts.present
                 /\ ToLowerCase(conv[r].form.extractCharts.value) = <<"f", "a", "l", "s", "e">>)

\* the same with preserveLayout true whatever its field says
C39_ExtractFlagsFollowForm ==
    \A r \in Reqs : conv[r].converted =>
        /\ Options(r).preserveLayout
        /\ ~Options(r).extractImages <=>
              (conv[r].form.extractImages.present
                 /\ ToLowerCase(conv[r].form.extractImages.value) = <<"f", "a", "l", "s", "e">>)
        /\ ~Options(r).extractCharts <=>
              (conv[r].form.extractCharts.present
                 /\ ToLowerCase(conv[r].form.extractCharts.value) = <<"f", "a", "l", "s", "e">>)

====
